---- MODULE Spec2Model ----
(***************************************************************************)
(* Investify: the quote acquisition layer (provider chain, freshness       *)
(* cache, failure gate), the prediction bridge with its local fallback and *)
(* the websocket subscription hub, modelled from the Go sources.           *)
(*                                                                         *)
(* Conventions                                                             *)
(*  - a Go string that the code inspects character by character (queries, *)
(*    tickers) is a sequence of one-character strings;                     *)
(*  - a float64 amount of money is an integer number of cents;             *)
(*  - a time.Time is an integer number of half seconds (HalfSecond units)  *)
(*    so that the truncation of int64(d.Seconds()) is visible;             *)
(*  - a *StockInfo is an object identifier into heap; 0 is the nil pointer.*)
(***************************************************************************)
EXTENDS Integers, Sequences, FiniteSets, TLC

VARIABLES
    build,            \* which of the two FetchStockInfo sources is compiled in
    clock,            \* time.Now(), in half seconds
    nadv,             \* number of clock advances so far (bounds the run)
    apiFailureCount,  \* stock_service.go: var apiFailureCount
    lastApiCallTime,  \* stock_service.go: var lastApiCallTime
    stockCache,       \* stock_service.go: var stockCache, ticker -> CachedStock
    heap,             \* the live *StockInfo objects, id -> StockInfo
    nextId,           \* allocation counter for StockInfo objects
    ret,              \* observation of the last completed call
    defaultBridge,    \* var defaultBridge: FALSE is nil, TRUE the one PythonBridge
    hostPython,       \* what exec.LookPath finds on this host ("" = nothing)
    initialized,      \* PythonBridge.initialized
    bgInit,           \* the goroutine of NewTFModelService: "pending" or "done"
    pret,             \* observation of the last PredictStockMovement call
    step,             \* observation of the last single step against an
                      \* outside service (a quote provider, the OpenAI API)
                      \* or of the last call at the failure gate
    flights,          \* the SearchStock calls in progress, caller -> position
    bridges,          \* the PythonBridge objects NewPythonBridge has created, in
                      \* order; var defaultBridge points to the last one
    goroutines,       \* the goroutines that call GetPythonBridge at the same time
    clients,          \* websocket_handler.go: var clients, conn -> ticker
    handler,          \* position of each connection's handleConnection
    peerGone,         \* connections whose remote end has gone away
    closed,           \* connections on which conn.Close() has run
    tasks,            \* the sendStockUpdate goroutines the broadcaster started
    received,         \* per connection, the updates delivered to the client
    ticks,            \* number of broadcaster ticks so far
    mutex,            \* websocket_handler.go: var clientsMutex, "free" or its holder
    stalled           \* connections whose client has stopped reading

svcVars == <<build, clock, nadv, apiFailureCount, lastApiCallTime, stockCache,
             heap, nextId, ret, defaultBridge, hostPython, initialized, bgInit>>

hubVars == <<clients, handler, peerGone, closed, tasks, received, ticks, mutex,
             stalled>>

otherVars == <<pret, step, flights, bridges, goroutines, hubVars>>

vars == <<svcVars, otherVars>>

----------------------------------------------------------------------------
(* Bounds of the model *)

MaxAllocs == 2
MaxAdvances == 1
MaxFailures == 5
MaxConns == 1
MaxTicks == 1
MaxTickerLen == 3

(* Program constants *)

\* 5*time.Minute, in half seconds
CacheTTL == 600
\* apiFailureCount > 3
FailureThreshold == 3
\* time.Since(lastApiCallTime) < 5*time.Minute, in half seconds
SuppressionWindow == 600
\* half seconds per second
HalfSecondsPerSecond == 2

NilPtr == 0
\* the zero time.Time of an unset lastApiCallTime
ZeroTime == -1
\* time.Since saturates at the maximum Duration for the zero time
MaxDuration == 1000000

----------------------------------------------------------------------------
(* strings.ToUpper / strings.TrimSpace over character sequences *)

LowerToUpper ==
    ("a" :> "A") @@ ("p" :> "P") @@ ("l" :> "L") @@ ("e" :> "E") @@ ("z" :> "Z")

ToUpper(s) ==
    [i \in 1..Len(s) |-> IF s[i] \in DOMAIN LowerToUpper THEN LowerToUpper[s[i]] ELSE s[i]]

RECURSIVE TrimLeft(_)
TrimLeft(s) ==
    IF s # <<>> /\ Head(s) = " " THEN TrimLeft(Tail(s)) ELSE s

RECURSIVE TrimRight(_)
TrimRight(s) ==
    IF s # <<>> /\ s[Len(s)] = " " THEN TrimRight(SubSeq(s, 1, Len(s) - 1)) ELSE s

TrimSpace(s) == TrimRight(TrimLeft(s))

\* the ticker upper-cased but not trimmed
NormalizeTickerNoTrim(s) == ToUpper(s)

\* ticker = strings.ToUpper(strings.TrimSpace(ticker))
NormalizeTicker(s) == ToUpper(TrimSpace(s))

AAPL == <<"A", "A", "P", "L">>
APPLE == <<"A", "P", "P", "L", "E">>
ZZ == <<"Z", "Z">>

\* the entries of companyNameToTicker that the modelled queries can hit
companyNameToTicker == (APPLE :> AAPL)

ResolveTicker(input) ==
    IF input \in DOMAIN companyNameToTicker THEN companyNameToTicker[input] ELSE input

\* the queries a caller may pass
Queries ==
    { <<" ">>, <<" ", "a", "p", "p", "l", "e">> }

\* every ticker a normalised query can resolve to
Tickers == { ResolveTicker(NormalizeTicker(q)) : q \in Queries } \ { <<>> }

----------------------------------------------------------------------------
(* Display strings.  A string holding numbers (a provider's "150.25", the  *)
(* formatted "75.00M") is a sequence of tokens: a number token has lit =   *)
(* "" and stands for num / 10^dec printed with dec decimals; any other     *)
(* token is the literal text lit.                                          *)

Num(n, d) == [lit |-> "", num |-> n, dec |-> d]
Lit(t) == [lit |-> t, num |-> 0, dec |-> 0]

IsNumber(s) == Len(s) = 1 /\ s[1].lit = ""

Pow10(d) == IF d = 0 THEN 1 ELSE IF d = 1 THEN 10 ELSE 100

\* v, _ := strconv.ParseFloat(s, 64): cents, 0 when s is not a number
ParseFloat(s) == IF IsNumber(s) THEN s[1].num * Pow10(2 - s[1].dec) ELSE 0

\* an int64 v is the pair hi, lo with v = hi * 10^6 + lo and 0 <= lo < 10^6
\* (a negative v is hi = 0 and lo = v)
Million == 1000000
Int64(hi, lo) == [hi |-> hi, lo |-> lo]
ToInt64(n) == IF n < 0 THEN Int64(0, n) ELSE Int64(n \div Million, n % Million)

\* v, _ := strconv.ParseInt(s, 10, 64): 0 when s is not a whole number
ParseInt(s) == IF IsNumber(s) /\ s[1].dec = 0 THEN ToInt64(s[1].num) ELSE ToInt64(0)

\* strings.Trim(s, "%")
RECURSIVE TrimPct(_)
TrimPct(s) ==
    IF s # <<>> /\ Head(s) = Lit("%") THEN TrimPct(Tail(s))
    ELSE IF s # <<>> /\ s[Len(s)] = Lit("%") THEN TrimPct(SubSeq(s, 1, Len(s) - 1))
    ELSE s

\* n / d rounded to the nearest integer, halves away from zero (n >= 0, d > 0)
RoundDiv(n, d) == (2 * n + d) \div (2 * d)

NA == << Lit("N/A") >>

\* v / 10^4 rounded down: the hundredths of a million in v
Myriads(v) == v.hi * 100 + (v.lo \div 10000)

\* formatVolume comparing with > where the code compares with >=
formatVolumeAbove(volume) ==
    IF volume.hi > 1000 \/ (volume.hi = 1000 /\ volume.lo > 0)
      THEN << Num(RoundDiv(Myriads(volume), 1000), 2), Lit("B") >>
    ELSE IF volume.hi > 1 \/ (volume.hi = 1 /\ volume.lo > 0)
      THEN << Num(volume.hi * 100 + RoundDiv(volume.lo, 10000), 2), Lit("M") >>
    ELSE IF volume.hi = 1 \/ volume.lo > 1000
      THEN << Num(RoundDiv(volume.hi * Million + volume.lo, 10), 2), Lit("K") >>
    ELSE << Num(volume.lo, 0) >>

formatVolume(volume) ==
    IF volume.hi >= 1000
      THEN << Num(RoundDiv(Myriads(volume), 1000), 2), Lit("B") >>
    ELSE IF volume.hi >= 1
      THEN << Num(volume.hi * 100 + RoundDiv(volume.lo, 10000), 2), Lit("M") >>
    ELSE IF volume.lo >= 1000
      THEN << Num(RoundDiv(volume.lo, 10), 2), Lit("K") >>
    ELSE << Num(volume.lo, 0) >>

formatMarketCap(marketCap) ==
    IF marketCap.hi >= Million
      THEN << Lit("$"), Num(RoundDiv(Myriads(marketCap), Million), 2), Lit("T") >>
    ELSE IF marketCap.hi >= 1000
      THEN << Lit("$"), Num(RoundDiv(Myriads(marketCap), 1000), 2), Lit("B") >>
    ELSE IF marketCap.hi >= 1
      THEN << Lit("$"), Num(marketCap.hi * 100 + RoundDiv(marketCap.lo, 10000), 2), Lit("M") >>
    ELSE << Lit("$"), Num(marketCap.lo, 0) >>

----------------------------------------------------------------------------
(* StockInfo and StockPrediction *)

NoPrediction ==
    [PredictedPrice |-> 0, Confidence |-> 0, Direction |-> "", Factors |-> <<>>]

\* a StockInfo as the parse functions build it: prediction fields zero
NewStockInfo(ticker, price, change, changePct, open, high, low, volume, marketCap) ==
    [Ticker |-> ticker, Price |-> price, Change |-> change, ChangePct |-> changePct,
     Open |-> open, High |-> high, Low |-> low, Volume |-> volume,
     MarketCap |-> marketCap, PredictedPrice |-> 0, PredictionConfidence |-> 0,
     TrendDirection |-> "", KeyFactors |-> <<>>, DataAge |-> 0]

\* the *StockInfo of a (nil, err) return
NilInfo == NewStockInfo(<<>>, 0, 0, <<>>, 0, 0, 0, <<>>, <<>>)

\* (stockInfo, err) of a provider step; err = "" is the nil error
Ok(info) == [isNil |-> FALSE, info |-> info, err |-> ""]
Fail(e) == [isNil |-> TRUE, info |-> NilInfo, err |-> e]

----------------------------------------------------------------------------
(* The three providers of the chain.  A response is what client.Get,       *)
(* io.ReadAll and json.Unmarshal make of the provider's answer: kind       *)
(* "transport" (client.Get fails), "read" (ReadAll fails), "badjson"       *)
(* (Unmarshal fails) or "json" with the decoded body.  The HTTP status is  *)
(* carried along; the chain never looks at it.                             *)

TransportError(status) == [kind |-> "transport", status |-> status]
ReadError(status) == [kind |-> "read", status |-> status]
BadJson(status) == [kind |-> "badjson", status |-> status]
Json(status, body) == [kind |-> "json", status |-> status, body |-> body]

parseTwelveDataResponse(data) ==
    LET price == ParseFloat(data.Close)
        open == ParseFloat(data.Open)
        high == ParseFloat(data.High)
        low == ParseFloat(data.Low)
        change == ParseFloat(data.Change)
        volume == ParseInt(data.Volume)
    IN Ok(NewStockInfo(data.Symbol, price, change,
                       TrimPct(data.PercentChange) \o << Lit("%") >>,
                       open, high, low, formatVolume(volume), NA))

fetchFromTwelveData(ticker, resp) ==
    IF resp.kind = "transport" THEN Fail("twelve data request failed")
    ELSE IF resp.kind = "read" THEN Fail("failed to read twelve data response")
    ELSE IF resp.kind = "badjson" THEN Fail("failed to parse twelve data response")
    ELSE IF resp.body.Symbol = <<>> THEN Fail("no data found for ticker")
    ELSE parseTwelveDataResponse(resp.body)

parseAlphaVantageData(quote) ==
    LET price == ParseFloat(quote.Price)
        open == ParseFloat(quote.Open)
        high == ParseFloat(quote.High)
        low == ParseFloat(quote.Low)
        change == ParseFloat(quote.Change)
        volume == ParseInt(quote.Volume)
    IN Ok(NewStockInfo(quote.Symbol, price, change, TrimPct(quote.ChangePercent),
                       open, high, low, formatVolume(volume), NA))

fetchFromAlphaVantage(ticker, resp) ==
    IF resp.kind = "transport" THEN Fail("alpha vantage request failed")
    ELSE IF resp.kind = "read" THEN Fail("failed to read alpha vantage response")
    ELSE IF resp.kind = "badjson" THEN Fail("failed to parse alpha vantage response")
    ELSE IF resp.body.Symbol = <<>> THEN Fail("no data found for ticker")
    ELSE parseAlphaVantageData(resp.body)

parseFinnhubData(quote, ticker) ==
    Ok(NewStockInfo(ticker, quote.C, quote.D, << Num(quote.DP, 2), Lit("%") >>,
                    quote.O, quote.H, quote.L, NA, NA))

fetchFromFinnhub(ticker, resp) ==
    IF resp.kind = "transport" THEN Fail("finnhub request failed")
    ELSE IF resp.kind = "read" THEN Fail("failed to read finnhub response")
    ELSE IF resp.kind = "badjson" THEN Fail("failed to parse finnhub response")
    ELSE IF resp.body.C = 0 THEN Fail("no data found for ticker")
    ELSE parseFinnhubData(resp.body, ticker)

(* The answers the providers can give for a ticker *)

\* the raw price strings of a string-encoded body: "150.25", missing, junk, "0.00", "-1.50"
PriceStrings ==
    { << Num(15025, 2) >>, << Num(1, 2) >>, <<>>, << Lit("abc") >>, << Num(0, 2) >>,
      << Num(-150, 2) >> }

\* the HTTP status codes a provider answers with
Statuses == { 200, 429, 503 }

TwelveBody(symbol, close) ==
    [Symbol |-> symbol, Open |-> << Num(14900, 2) >>, High |-> << Num(15100, 2) >>,
     Low |-> << Num(14850, 2) >>, Close |-> close, Volume |-> << Num(75000000, 0) >>,
     Change |-> << Num(125, 2) >>, PercentChange |-> << Num(84, 2) >>]

\* the rate-limit / unknown-symbol answer: a JSON object without "symbol"
TwelveNoData ==
    [Symbol |-> <<>>, Open |-> <<>>, High |-> <<>>, Low |-> <<>>, Close |-> <<>>,
     Volume |-> <<>>, Change |-> <<>>, PercentChange |-> <<>>]

\* every answer the model knows of
AllTwelveResponses(ticker) ==
    { TransportError(0), ReadError(200), BadJson(503) }
    \cup { Json(st, TwelveNoData) : st \in Statuses }
    \cup { Json(st, TwelveBody(ticker, c)) : st \in Statuses, c \in PriceStrings }

\* the answers explored in the state machine of the services
TwelveResponses(ticker) ==
    { TransportError(0), Json(429, TwelveNoData),
      Json(200, TwelveBody(ticker, << Num(15025, 2) >>)),
      Json(200, TwelveBody(ticker, << Lit("abc") >>)) }

AlphaBody(symbol, price) ==
    [Symbol |-> symbol, Open |-> << Num(14900, 2) >>, High |-> << Num(15100, 2) >>,
     Low |-> << Num(14850, 2) >>, Price |-> price, Volume |-> << Num(75000000, 0) >>,
     Change |-> << Num(125, 2) >>, ChangePercent |-> << Num(84, 2), Lit("%") >>]

AlphaNoData ==
    [Symbol |-> <<>>, Open |-> <<>>, High |-> <<>>, Low |-> <<>>, Price |-> <<>>,
     Volume |-> <<>>, Change |-> <<>>, ChangePercent |-> <<>>]

AllAlphaResponses(ticker) ==
    { TransportError(0), ReadError(200), BadJson(503) }
    \cup { Json(st, AlphaNoData) : st \in Statuses }
    \cup { Json(st, AlphaBody(ticker, c)) : st \in Statuses, c \in PriceStrings }

AlphaResponses(ticker) ==
    { BadJson(503), Json(200, AlphaBody(ticker, << Num(15025, 2) >>)) }

FinnhubBody(c) ==
    [C |-> c, D |-> 125, DP |-> 84, H |-> 15100, L |-> 14850, O |-> 14900]

\* numeric prices of a number-encoded body: 150.25, 0 (also: field missing), -1.50
PriceNumbers == { 15025, 1, 0, -150 }

AllFinnhubResponses ==
    { TransportError(0), ReadError(200), BadJson(401) }
    \cup { Json(st, FinnhubBody(c)) : st \in Statuses, c \in PriceNumbers }

FinnhubResponses ==
    { ReadError(200), Json(200, FinnhubBody(15025)) }

----------------------------------------------------------------------------
(* createRealisticStockData: the synthetic quote *)

\* the character codes of the letters the modelled tickers are made of
CharCode ==
    (" " :> 32) @@ ("A" :> 65) @@ ("E" :> 69) @@ ("L" :> 76) @@ ("P" :> 80)
      @@ ("Z" :> 90)

\* seed := int64(0); for _, char := range ticker { seed += int64(char) }
RECURSIVE Seed(_)
Seed(ticker) ==
    IF ticker = <<>> THEN 0 ELSE CharCode[Head(ticker)] + Seed(Tail(ticker))

Abs(x) == IF x < 0 THEN -x ELSE x

\* n / d rounded to the nearest integer, halves away from zero (d > 0)
RoundSigned(n, d) == IF n >= 0 THEN RoundDiv(n, d) ELSE -RoundDiv(-n, d)

determineTrendDirection(change) ==
    IF change > 150 THEN "UP" ELSE IF change < -150 THEN "DOWN" ELSE "NEUTRAL"

generateKeyFactors(ticker, change) ==
    LET baseFactors == << "Market sentiment analysis indicates mixed signals",
                          "Institutional ownership patterns showing stability",
                          "Technical analysis suggests range-bound trading" >>
    IN IF change > 0
         THEN baseFactors \o << "Positive price momentum indicating buyer interest",
                                "Volume patterns supporting upward price action" >>
       ELSE IF change < 0
         THEN baseFactors \o << "Recent selling pressure creating potential opportunities",
                                "Support levels holding despite downward pressure" >>
       ELSE baseFactors

\* the enhancedData entry of AAPL (the WBA entry is built the same way)
EnhancedAAPL ==
    [Ticker |-> AAPL, Price |-> 18975, Change |-> 325,
     ChangePct |-> << Num(174, 2), Lit("%") >>,
     Open |-> 18650, High |-> 19120, Low |-> 18580,
     Volume |-> << Num(582, 1), Lit("M") >>,
     MarketCap |-> << Lit("$"), Num(295, 2), Lit("T") >>,
     PredictedPrice |-> 1985000, PredictionConfidence |-> 84700,
     TrendDirection |-> "UP",
     KeyFactors |-> << "iPhone 15 Pro sales exceeding expectations globally",
                       "Services revenue accelerating with 16% YoY growth",
                       "Vision Pro creating new augmented reality market" >>,
     DataAge |-> 0]

enhancedData == (AAPL :> EnhancedAAPL)

\* a quote generator that takes the time of the call into the price
createTimedStockData(ticker) ==
    [isNil |-> FALSE, err |-> "",
     info |-> [EnhancedAAPL EXCEPT !.Ticker = ticker, !.Price = 5000 + clock]]

\* money is in cents, PredictedPrice in hundredths of a cent, confidence in
\* thousandths
createRealisticStockData(ticker) ==
    IF ticker \in DOMAIN enhancedData THEN Ok(enhancedData[ticker])
    ELSE
      LET seed == Seed(ticker)
          basePrice == 5000 + 100 * (seed % 180) + (seed % 100)
          change == ((seed % 40) - 20) * 20
          changePct == RoundSigned(change * 10000, basePrice)
      IN Ok([Ticker |-> ticker, Price |-> basePrice, Change |-> change,
             ChangePct |-> << Num(changePct, 2), Lit("%") >>,
             Open |-> basePrice - ((seed % 40) - 20) * 8,
             High |-> basePrice + Abs(((seed % 40) - 20) * 36),
             Low |-> basePrice - Abs(((seed % 40) - 20) * 30),
             Volume |-> << Num((8 + (seed % 45)) * 10, 1), Lit("M") >>,
             MarketCap |-> << Lit("$"), Num((2 + (seed % 300)) * 10, 1), Lit("B") >>,
             PredictedPrice |-> basePrice * (100 + ((seed % 12) - 6)),
             PredictionConfidence |-> (65 + (seed % 25)) * 1000,
             TrendDirection |-> determineTrendDirection(change),
             KeyFactors |-> generateKeyFactors(ticker, change),
             DataAge |-> 0])

----------------------------------------------------------------------------
(* The prediction bridge (PythonBridge) *)

\* what one run of the analyzer subprocess produces
PyExit == [kind |-> "exit"]
PyBadJson == [kind |-> "badjson"]
PyJson(result) == [kind |-> "json", result |-> result]

\* PredictionResult.Technical, a map[string]interface{}: nil, or the set of
\* its keys
NilTechnical == [isNil |-> TRUE, keys |-> {}]
TechnicalMap(keys) == [isNil |-> FALSE, keys |-> keys]

\* the keys of the map createSimulatedTechnicalData returns
RequiredSeries ==
    { "dates", "rsi", "macd", "macd_signal", "macd_histogram",
      "bollinger_middle", "bollinger_upper", "bollinger_lower" }

PyResult(price, conf, dir, factors, technical, error) ==
    [PredictedPrice |-> price, Confidence |-> conf, Direction |-> dir,
     Factors |-> factors, Technical |-> technical, Error |-> error]

NilResult == PyResult(0, 0, "", <<>>, NilTechnical, "")

PyOutcomes ==
    { PyExit, PyBadJson,
      PyJson(PyResult(0, 0, "", <<>>, NilTechnical, "No data found for ticker")),
      PyJson(PyResult(1550000, 750, "UP", << "RSI oversold", "MACD bullish" >>,
                      TechnicalMap(RequiredSeries), "")),
      PyJson(PyResult(1500000, 500, "NEUTRAL", <<>>, NilTechnical, "")) }

\* the outcome of the checks Initialize makes after the interpreter test
InitChecks == { "noscript", "nodeps", "ok" }

\* Initialize marking the bridge initialized before the import test is run
InitializeEarly(init, pyExe, chk) ==
    IF init THEN [initialized |-> TRUE, err |-> "", checked |-> FALSE]
    ELSE IF pyExe = ""
      THEN [initialized |-> FALSE, err |-> "Python executable not found", checked |-> FALSE]
    ELSE IF chk = "noscript"
      THEN [initialized |-> FALSE, err |-> "simple_analyzer.py script not found",
            checked |-> TRUE]
    ELSE IF chk = "nodeps"
      THEN [initialized |-> TRUE, err |-> "dependency check failed", checked |-> TRUE]
    ELSE [initialized |-> TRUE, err |-> "", checked |-> TRUE]

\* PythonBridge.Initialize: the new value of initialized, the error, and
\* whether the checks of the script and of the imports were run
Initialize(init, pyExe, chk) ==
    IF init THEN [initialized |-> TRUE, err |-> "", checked |-> FALSE]
    ELSE IF pyExe = ""
      THEN [initialized |-> FALSE, err |-> "Python executable not found", checked |-> FALSE]
    ELSE IF chk = "noscript"
      THEN [initialized |-> FALSE, err |-> "simple_analyzer.py script not found",
            checked |-> TRUE]
    ELSE IF chk = "nodeps"
      THEN [initialized |-> FALSE, err |-> "dependency check failed", checked |-> TRUE]
    ELSE [initialized |-> TRUE, err |-> "", checked |-> TRUE]

\* PythonBridge.PredictStockPriceWithSimpleAnalyzer and PredictStockPrice
\* (the two bodies are the same): result, error, new initialized, and
\* whether the analyzer subprocess was launched
PredictStockPriceWithSimpleAnalyzer(init, pyExe, chk, ticker, out) ==
    LET ini == IF init THEN [initialized |-> TRUE, err |-> ""]
               ELSE Initialize(init, pyExe, chk)
    IN IF ini.err # ""
         THEN [res |-> NilResult, isNil |-> TRUE, err |-> "bridge not initialized",
               initialized |-> ini.initialized, launched |-> FALSE]
       ELSE IF TrimSpace(ticker) = <<>>
         THEN [res |-> NilResult, isNil |-> TRUE, err |-> "empty ticker",
               initialized |-> ini.initialized, launched |-> FALSE]
       ELSE IF out.kind = "exit"
         THEN [res |-> NilResult, isNil |-> TRUE, err |-> "prediction failed",
               initialized |-> ini.initialized, launched |-> TRUE]
       ELSE IF out.kind = "badjson"
         THEN [res |-> NilResult, isNil |-> TRUE, err |-> "failed to parse prediction result",
               initialized |-> ini.initialized, launched |-> TRUE]
       ELSE IF out.result.Error # ""
         THEN [res |-> NilResult, isNil |-> TRUE, err |-> "prediction error",
               initialized |-> ini.initialized, launched |-> TRUE]
       ELSE [res |-> out.result, isNil |-> FALSE, err |-> "",
             initialized |-> ini.initialized, launched |-> TRUE]

PredictStockPrice(init, pyExe, chk, ticker, out) ==
    PredictStockPriceWithSimpleAnalyzer(init, pyExe, chk, ticker, out)

----------------------------------------------------------------------------
(* TFModelService.PredictStockMovement *)

\* randomFactor := (math.Sin(float64(time.Now().Unix())) + 1.0) * 0.5, in thousandths
RandomFactors == { 0, 500, 501, 1000 }

\* time.Now().Hour()
Hours == { 9, 13, 20 }

StockPrediction(price, conf, dir, factors) ==
    [PredictedPrice |-> price, Confidence |-> conf, Direction |-> dir, Factors |-> factors]

\* StockInfo.Price, Change, Open, High and Low are float64: a quote's amounts
\* are integers counted in 1/unit of a cent, whole cents for the quotes of the
\* services and hundredths of a cent for quotes priced below the cent
CentUnit == 1
SubCentUnit == 100

\* the local fallback of PredictStockMovement (tensorflow_model.go:84-161).
\* predictedChange is kept in twentieths of the quote's unit: Change * 1.2 =
\* 24/20, Change * -0.8 = -16/20, and the +/-5% limit of Price is Price/20.
\* math.Round(predictedPrice*100)/100 rounds to whole cents.
FallbackPrediction(unit, stock, randomFactor, hour) ==
    LET raw == IF stock.Change # 0 /\ stock.Price # 0
                 THEN IF randomFactor > 500 THEN stock.Change * 24 ELSE stock.Change * (-16)
               ELSE 0
        \* changePercent > 5 and changePercent < -5, as a comparison of raw with Price
        above == IF stock.Price > 0 THEN raw > stock.Price ELSE raw < stock.Price
        below == IF stock.Price > 0 THEN raw < -stock.Price ELSE raw > -stock.Price
        predictedChange == IF stock.Price = 0 THEN 0
                           ELSE IF above THEN stock.Price
                           ELSE IF below THEN -stock.Price
                           ELSE raw
        predictedPrice == RoundSigned(stock.Price * 20 + predictedChange, 20 * unit)
        direction == IF predictedChange > 0 THEN "UP"
                     ELSE IF predictedChange < 0 THEN "DOWN" ELSE "NEUTRAL"
        confidence == 60000 + randomFactor * 30
        f1 == IF stock.Change > 0 THEN << "Recent positive price momentum" >>
              ELSE IF stock.Change < 0 THEN << "Recent negative price momentum" >>
              ELSE <<>>
        dayRange == stock.High - stock.Low
        \* pricePosition > 0.8 and < 0.2 with pricePosition = (Price - Low) / dayRange
        f2 == IF dayRange > 0
                THEN IF (stock.Price - stock.Low) * 10 > 8 * dayRange
                       THEN << "Price near daily high" >>
                     ELSE IF (stock.Price - stock.Low) * 10 < 2 * dayRange
                       THEN << "Price near daily low" >>
                     ELSE <<>>
              ELSE <<>>
        f3 == IF hour < 12 THEN << "Morning market conditions" >>
              ELSE IF hour >= 12 /\ hour < 16 THEN << "Afternoon trading patterns" >>
              ELSE << "After-hours sentiment" >>
        factors == f1 \o f2 \o f3
    IN StockPrediction(predictedPrice * 100, confidence, direction,
                       IF Len(factors) < 2
                         THEN factors \o << "Based on technical analysis" >>
                       ELSE factors)

FromPython(r) == StockPrediction(r.PredictedPrice, r.Confidence, r.Direction, r.Factors)

\* PredictStockMovement handing the error of the bridge to its caller
PredictStockMovementStrict(unit, stock, bridgeInit, out1, out2, randomFactor, hour) ==
    LET first == PredictStockPriceWithSimpleAnalyzer(TRUE, "python3", "ok", stock.Ticker, out1)
    IN IF bridgeInit /\ first.err = "" /\ ~first.isNil
         THEN [pred |-> FromPython(first.res), isNil |-> FALSE, err |-> "", path |-> "simple"]
       ELSE IF bridgeInit
         THEN [pred |-> NoPrediction, isNil |-> TRUE, err |-> first.err, path |-> "simple"]
       ELSE [pred |-> FallbackPrediction(unit, stock, randomFactor, hour), isNil |-> FALSE,
             err |-> "", path |-> "fallback"]

\* (prediction, err) of PredictStockMovement for a non-nil stock; bridgeInit is
\* bridge.initialized as the call reads it, out1 and out2 the analyzer runs
PredictStockMovement(unit, stock, bridgeInit, out1, out2, randomFactor, hour) ==
    LET first == PredictStockPriceWithSimpleAnalyzer(TRUE, "python3", "ok", stock.Ticker, out1)
        second == PredictStockPrice(TRUE, "python3", "ok", stock.Ticker, out2)
    IN IF bridgeInit /\ first.err = "" /\ ~first.isNil
         THEN [pred |-> FromPython(first.res), isNil |-> FALSE, err |-> "", path |-> "simple"]
       ELSE IF bridgeInit /\ second.err = "" /\ ~second.isNil
         THEN [pred |-> FromPython(second.res), isNil |-> FALSE, err |-> "", path |-> "backup"]
       ELSE [pred |-> FallbackPrediction(unit, stock, randomFactor, hour), isNil |-> FALSE,
             err |-> "", path |-> "fallback"]

----------------------------------------------------------------------------
(* addAIAnalysis and the provider chain of FetchStockInfo *)

\* the part of addAIAnalysis that fills in the prediction; p is the result of
\* PredictStockMovement, consulted only when stockInfo.Price > 0
WithPrediction(stockInfo, p) ==
    IF stockInfo.Price > 0 /\ p.err = "" /\ ~p.isNil
      THEN [stockInfo EXCEPT !.PredictedPrice = p.pred.PredictedPrice,
                             !.PredictionConfidence = p.pred.Confidence * 100,
                             !.TrendDirection = p.pred.Direction,
                             !.KeyFactors = p.pred.Factors]
    ELSE stockInfo

Succeeded(r) == r.err = "" /\ ~r.isNil

\* time.Since(t), in half seconds
Since(t) == IF t = ZeroTime THEN MaxDuration ELSE clock - t

\* the duration rounded to the nearest second instead of truncated
SecondsRounded(d) == (d + 1) \div HalfSecondsPerSecond

\* int64(d.Seconds()) of a duration in half seconds
Seconds(d) == d \div HalfSecondsPerSecond

\* the heap without the objects that neither the cache nor the caller refers to
Live(h, cache, ptr) ==
    LET used == { cache[k].Data : k \in DOMAIN cache } \cup { ptr }
    IN [i \in (DOMAIN h) \cap used |-> h[i]]

\* stockCache[key] = &CachedStock{Data: ptr, Timestamp: time.Now()}
CachePut(cache, key, ptr) ==
    [k \in (DOMAIN cache) \cup {key} |->
        IF k = key THEN [Data |-> ptr, Timestamp |-> clock] ELSE cache[k]]

\* the inputs PredictStockMovement draws from outside the quote
SvcRandomFactors == { 1000 }
SvcHours == { 9 }
SvcPyOutcomes ==
    { PyBadJson,
      PyJson(PyResult(1550000, 750, "UP", << "RSI oversold", "MACD bullish" >>,
                      TechnicalMap(RequiredSeries), "")) }

Observation(op, query, ptr, err, calls, resps, hit) ==
    [op |-> op, query |-> query, ptr |-> ptr, err |-> err, calls |-> calls,
     resps |-> resps, hit |-> hit]

ValidationError == "please enter a valid ticker symbol or company name"

\* GetPythonBridge(): creates the bridge on first use
\* detectPythonExecutable(): the first of python3, python on the PATH
detectPythonExecutable == hostPython

\* the pythonExecutable field of the bridge, set once by NewPythonBridge
pythonExecutable == detectPythonExecutable

GetPythonBridge == defaultBridge' = TRUE

\* return addAIAnalysis(stockInfo) of the chain: recommendation, prediction,
\* cache under stockInfo.Ticker, return the object
ReturnAnalysed(op, query, r, calls, resps) ==
    /\ nextId <= MaxAllocs
    /\ \E p \in IF r.info.Price > 0
                  THEN IF initialized
                         THEN { PredictStockMovement(CentUnit, r.info, TRUE, o1, o2, rf, h) :
                                  o1 \in SvcPyOutcomes, o2 \in SvcPyOutcomes,
                                  rf \in SvcRandomFactors, h \in SvcHours }
                       ELSE { PredictStockMovement(CentUnit, r.info, FALSE, PyExit, PyExit, rf, h) :
                                  rf \in SvcRandomFactors, h \in SvcHours }
                ELSE { [pred |-> NoPrediction, isNil |-> TRUE, err |-> "", path |-> "none"] } :
         LET info == WithPrediction(r.info, p)
             cache == CachePut(stockCache, info.Ticker, nextId)
         IN /\ stockCache' = cache
            /\ heap' = Live(heap @@ (nextId :> info), cache, nextId)
            /\ ret' = Observation(op, query, nextId, "", calls, resps, FALSE)
    /\ IF r.info.Price > 0 THEN GetPythonBridge ELSE UNCHANGED defaultBridge
    /\ nextId' = nextId + 1
    /\ UNCHANGED <<build, clock, nadv, apiFailureCount, lastApiCallTime, hostPython,
                   initialized, bgInit, otherVars>>

\* return createRealisticStockData(ticker): a fresh object, not cached
ReturnSynthetic(op, query, ticker, calls, resps) ==
    /\ nextId <= MaxAllocs
    /\ heap' = Live(heap @@ (nextId :> createRealisticStockData(ticker).info),
                    stockCache, nextId)
    /\ ret' = Observation(op, query, nextId, "", calls, resps, FALSE)
    /\ nextId' = nextId + 1
    /\ UNCHANGED <<build, clock, nadv, apiFailureCount, lastApiCallTime, stockCache,
                   defaultBridge, hostPython, initialized, bgInit, otherVars>>

\* return nil, err with nothing else touched
ReturnError(op, query, err, calls, resps) ==
    /\ ret' = Observation(op, query, NilPtr, err, calls, resps, FALSE)
    /\ heap' = Live(heap, stockCache, NilPtr)
    /\ UNCHANGED <<build, clock, nadv, apiFailureCount, lastApiCallTime, stockCache,
                   nextId, defaultBridge, hostPython, initialized, bgInit, otherVars>>

\* the chain asking Alpha Vantage before Twelve Data
FetchChainAlphaFirst(op, query, arg) ==
    LET ticker == NormalizeTicker(arg)
    IN IF ticker = <<>> THEN ReturnError(op, query, ValidationError, <<>>, <<>>)
       ELSE
         \E r2 \in AlphaResponses(ticker) :
           IF Succeeded(fetchFromAlphaVantage(ticker, r2))
             THEN ReturnAnalysed(op, query, fetchFromAlphaVantage(ticker, r2),
                                 << "AlphaVantage" >>, << r2 >>)
           ELSE \E r1 \in TwelveResponses(ticker) :
             IF Succeeded(fetchFromTwelveData(ticker, r1))
               THEN ReturnAnalysed(op, query, fetchFromTwelveData(ticker, r1),
                                   << "AlphaVantage", "TwelveData" >>, << r2, r1 >>)
             ELSE \E r3 \in FinnhubResponses :
               IF Succeeded(fetchFromFinnhub(ticker, r3))
                 THEN ReturnAnalysed(op, query, fetchFromFinnhub(ticker, r3),
                                     << "AlphaVantage", "TwelveData", "Finnhub" >>,
                                     << r2, r1, r3 >>)
               ELSE ReturnSynthetic(op, query, ticker,
                                    << "AlphaVantage", "TwelveData", "Finnhub" >>,
                                    << r2, r1, r3 >>)

\* FetchStockInfo of the provider chain (stock_service.go:559-593), called
\* with the string arg on behalf of operation op
FetchChain(op, query, arg) ==
    LET ticker == NormalizeTicker(arg)
    IN IF ticker = <<>> THEN ReturnError(op, query, ValidationError, <<>>, <<>>)
       ELSE
         \E r1 \in TwelveResponses(ticker) :
           IF Succeeded(fetchFromTwelveData(ticker, r1))
             THEN ReturnAnalysed(op, query, fetchFromTwelveData(ticker, r1),
                                 << "TwelveData" >>, << r1 >>)
           ELSE \E r2 \in AlphaResponses(ticker) :
             IF Succeeded(fetchFromAlphaVantage(ticker, r2))
               THEN ReturnAnalysed(op, query, fetchFromAlphaVantage(ticker, r2),
                                   << "TwelveData", "AlphaVantage" >>, << r1, r2 >>)
             ELSE \E r3 \in FinnhubResponses :
               IF Succeeded(fetchFromFinnhub(ticker, r3))
                 THEN ReturnAnalysed(op, query, fetchFromFinnhub(ticker, r3),
                                     << "TwelveData", "AlphaVantage", "Finnhub" >>,
                                     << r1, r2, r3 >>)
               ELSE ReturnSynthetic(op, query, ticker,
                                    << "TwelveData", "AlphaVantage", "Finnhub" >>,
                                    << r1, r2, r3 >>)

----------------------------------------------------------------------------
(* FetchStockInfo of the Yahoo source (stock_service.go:175-371) *)

YahooQuote(symbol, price) ==
    [Symbol |-> symbol, RegularMarketPrice |-> price, RegularMarketChange |-> 125,
     RegularMarketChangePercent |-> 84, RegularMarketOpen |-> 14900,
     RegularMarketDayHigh |-> 15100, RegularMarketDayLow |-> 14850,
     RegularMarketVolume |-> Int64(75, 0), MarketCap |-> Int64(2500000, 0)]

YahooBody(error, result) == [Error |-> error, Result |-> result]

YahooResponses(ticker) ==
    { TransportError(0), Json(429, YahooBody(FALSE, <<>>)), ReadError(200), BadJson(200),
      Json(200, YahooBody(TRUE, <<>>)), Json(200, YahooBody(FALSE, <<>>)) }
    \cup { Json(200, YahooBody(FALSE, << YahooQuote(ticker, c) >>)) : c \in { 15025, 0 } }

\* the StockInfo literal of stock_service.go:306-318
YahooStockInfo(quote) ==
    NewStockInfo(quote.Symbol, quote.RegularMarketPrice, quote.RegularMarketChange,
                 << Num(quote.RegularMarketChangePercent, 2), Lit("%") >>,
                 quote.RegularMarketOpen, quote.RegularMarketDayHigh,
                 quote.RegularMarketDayLow, formatVolume(quote.RegularMarketVolume),
                 formatMarketCap(quote.MarketCap))

\* the failure gate of FetchStockInfo (stock_service.go:183)
GateOpenFromThree ==
    apiFailureCount >= FailureThreshold /\ Since(lastApiCallTime) < SuppressionWindow

GateOpen ==
    apiFailureCount > FailureThreshold /\ Since(lastApiCallTime) < SuppressionWindow

\* the number of calls in a row that the gate has refused
Refused == IF step.provider = "Yahoo" /\ ~step.asked THEN step.refused ELSE 0

\* what the last FetchStockInfo found at the gate: the counter and the age of
\* the last request at that moment, whether it went on to ask Yahoo, and
\* the number of calls refused since the last request
GateStep(asked, refused) ==
    [provider |-> "Yahoo", asked |-> asked, failuresBefore |-> apiFailureCount,
     sinceBefore |-> Since(lastApiCallTime), refused |-> refused]

\* a refused call that counts as a request
YahooSuppressedStamping(op, query) ==
    /\ Refused < MaxFailures
    /\ ret' = Observation(op, query, NilPtr,
                          "yahoo Finance API is currently experiencing issues", <<>>, <<>>,
                          FALSE)
    /\ heap' = Live(heap, stockCache, NilPtr)
    /\ step' = GateStep(FALSE, Refused + 1)
    /\ lastApiCallTime' = clock
    /\ UNCHANGED <<build, clock, nadv, apiFailureCount, stockCache,
                   nextId, defaultBridge, hostPython, initialized, bgInit, pret, flights,
                   bridges, goroutines,
                   hubVars>>

\* a refused call that drops what the cache holds
YahooSuppressedEvicting(op, query) ==
    /\ Refused < MaxFailures
    /\ ret' = Observation(op, query, NilPtr,
                          "yahoo Finance API is currently experiencing issues", <<>>, <<>>,
                          FALSE)
    /\ stockCache' = << >>
    /\ heap' = << >>
    /\ step' = GateStep(FALSE, Refused + 1)
    /\ UNCHANGED <<build, clock, nadv, apiFailureCount, lastApiCallTime,
                   nextId, defaultBridge, hostPython, initialized, bgInit, pret, flights,
                   bridges, goroutines,
                   hubVars>>

\* the gate is open: nil and an error, no request is made
YahooSuppressed(op, query) ==
    /\ Refused < MaxFailures
    /\ ret' = Observation(op, query, NilPtr,
                          "yahoo Finance API is currently experiencing issues", <<>>, <<>>,
                          FALSE)
    /\ heap' = Live(heap, stockCache, NilPtr)
    /\ step' = GateStep(FALSE, Refused + 1)
    /\ UNCHANGED <<build, clock, nadv, apiFailureCount, lastApiCallTime, stockCache,
                   nextId, defaultBridge, hostPython, initialized, bgInit, pret, flights,
                   bridges, goroutines,
                   hubVars>>

\* a failed attempt of the Yahoo source: nil, err; the failure counter is
\* bumped where the code bumps it and reset where the code has reset it
YahooFail(op, query, resp, err, count) ==
    /\ count <= MaxFailures
    /\ apiFailureCount' = count
    /\ lastApiCallTime' = clock
    /\ ret' = Observation(op, query, NilPtr, err, << "Yahoo" >>, << resp >>, FALSE)
    /\ heap' = Live(heap, stockCache, NilPtr)
    /\ step' = GateStep(TRUE, Refused)
    /\ UNCHANGED <<build, clock, nadv, stockCache, nextId, defaultBridge,
                   hostPython, initialized, bgInit, pret, flights, bridges, goroutines, hubVars>>

\* a success that leaves the failure counter as it is
YahooSuccessKeepingCount(op, query, ticker, resp) ==
    /\ nextId <= MaxAllocs
    /\ UNCHANGED apiFailureCount
    /\ lastApiCallTime' = clock
    /\ \E p \in IF initialized
                  THEN { PredictStockMovement(CentUnit, YahooStockInfo(resp.body.Result[1]), TRUE,
                                              o1, o2, rf, h) :
                           o1 \in SvcPyOutcomes, o2 \in SvcPyOutcomes,
                           rf \in SvcRandomFactors, h \in SvcHours }
                ELSE { PredictStockMovement(CentUnit, YahooStockInfo(resp.body.Result[1]), FALSE,
                                            PyExit, PyExit, rf, h) :
                           rf \in SvcRandomFactors, h \in SvcHours } :
         LET info == WithPrediction(YahooStockInfo(resp.body.Result[1]), p)
             cache == CachePut(stockCache, ticker, nextId)
         IN /\ stockCache' = cache
            /\ heap' = Live(heap @@ (nextId :> info), cache, nextId)
            /\ ret' = Observation(op, query, nextId, "", << "Yahoo" >>, << resp >>, FALSE)
    /\ GetPythonBridge
    /\ nextId' = nextId + 1
    /\ step' = GateStep(TRUE, Refused)
    /\ UNCHANGED <<build, clock, nadv, hostPython, initialized, bgInit, pret, flights,
                   bridges, goroutines,
                   hubVars>>

\* a quote from Yahoo: the counter is reset, the quote analysed and cached
YahooSuccess(op, query, ticker, resp) ==
    /\ nextId <= MaxAllocs
    /\ apiFailureCount' = 0
    /\ lastApiCallTime' = clock
    /\ \E p \in IF initialized
                  THEN { PredictStockMovement(CentUnit, YahooStockInfo(resp.body.Result[1]), TRUE,
                                              o1, o2, rf, h) :
                           o1 \in SvcPyOutcomes, o2 \in SvcPyOutcomes,
                           rf \in SvcRandomFactors, h \in SvcHours }
                ELSE { PredictStockMovement(CentUnit, YahooStockInfo(resp.body.Result[1]), FALSE,
                                            PyExit, PyExit, rf, h) :
                           rf \in SvcRandomFactors, h \in SvcHours } :
         LET info == WithPrediction(YahooStockInfo(resp.body.Result[1]), p)
             cache == CachePut(stockCache, ticker, nextId)
         IN /\ stockCache' = cache
            /\ heap' = Live(heap @@ (nextId :> info), cache, nextId)
            /\ ret' = Observation(op, query, nextId, "", << "Yahoo" >>, << resp >>, FALSE)
    /\ GetPythonBridge
    /\ nextId' = nextId + 1
    /\ step' = GateStep(TRUE, Refused)
    /\ UNCHANGED <<build, clock, nadv, hostPython, initialized, bgInit, pret, flights,
                   bridges, goroutines,
                   hubVars>>

FetchYahoo(op, query, arg) ==
    LET ticker == NormalizeTicker(arg)
    IN IF ticker = <<>> THEN ReturnError(op, query, ValidationError, <<>>, <<>>)
       ELSE IF GateOpen THEN YahooSuppressed(op, query)
       ELSE \E resp \in YahooResponses(ticker) :
         IF resp.kind = "transport"
           THEN YahooFail(op, query, resp, "network error", apiFailureCount + 1)
         ELSE IF resp.status # 200
           THEN YahooFail(op, query, resp, "bad status", apiFailureCount + 1)
         ELSE IF resp.kind = "read"
           THEN YahooFail(op, query, resp, "failed to read response", apiFailureCount)
         ELSE IF resp.kind = "badjson"
           THEN YahooFail(op, query, resp, "failed to parse response", apiFailureCount)
         ELSE IF resp.body.Error
           THEN YahooFail(op, query, resp, "yahoo API error", apiFailureCount + 1)
         ELSE IF Len(resp.body.Result) = 0
           THEN YahooFail(op, query, resp, "no data found", 0)
         ELSE IF resp.body.Result[1].RegularMarketPrice <= 0
           THEN YahooFail(op, query, resp, "invalid price data", 0)
         ELSE YahooSuccess(op, query, ticker, resp)

\* FetchStockInfo(arg) as the compiled source defines it
Fetch(op, query, arg) ==
    IF build = "chain" THEN FetchChain(op, query, arg) ELSE FetchYahoo(op, query, arg)

----------------------------------------------------------------------------
(* The operations of the services package *)

\* a cache branch that, besides the age, takes the prediction off the
\* cached object
CacheHitStripping(op, query, ticker) ==
    LET cached == stockCache[ticker]
        h == [heap EXCEPT ![cached.Data].DataAge = Seconds(Since(cached.Timestamp)),
                          ![cached.Data].KeyFactors = <<>>]
    IN /\ heap' = Live(h, stockCache, cached.Data)
       /\ ret' = Observation(op, query, cached.Data, "", <<>>, <<>>, TRUE)
       /\ UNCHANGED <<build, clock, nadv, apiFailureCount, lastApiCallTime, stockCache,
                      nextId, defaultBridge, hostPython, initialized, bgInit, otherVars>>

\* a cache hit that renews the entry's timestamp
CacheHitSliding(op, query, ticker) ==
    LET cached == stockCache[ticker]
        h == [heap EXCEPT ![cached.Data].DataAge = Seconds(Since(cached.Timestamp))]
    IN /\ heap' = Live(h, stockCache, cached.Data)
       /\ stockCache' = CachePut(stockCache, ticker, cached.Data)
       /\ ret' = Observation(op, query, cached.Data, "", <<>>, <<>>, TRUE)
       /\ UNCHANGED <<build, clock, nadv, apiFailureCount, lastApiCallTime,
                      nextId, defaultBridge, hostPython, initialized, bgInit, otherVars>>

\* the cache branch of SearchStock: the entry is fresh, its DataAge is
\* rewritten in place and the cached object itself is returned
CacheHit(op, query, ticker) ==
    LET cached == stockCache[ticker]
        h == [heap EXCEPT ![cached.Data].DataAge = Seconds(Since(cached.Timestamp))]
    IN /\ heap' = Live(h, stockCache, cached.Data)
       /\ ret' = Observation(op, query, cached.Data, "", <<>>, <<>>, TRUE)
       /\ UNCHANGED <<build, clock, nadv, apiFailureCount, lastApiCallTime, stockCache,
                      nextId, defaultBridge, hostPython, initialized, bgInit, otherVars>>

\* the freshness test with the limit taken as five seconds
IsFreshFiveSeconds(ticker) ==
    /\ ticker \in DOMAIN stockCache
    /\ Since(stockCache[ticker].Timestamp) < CacheTTL \div 60

IsFresh(ticker) ==
    /\ ticker \in DOMAIN stockCache
    /\ Since(stockCache[ticker].Timestamp) < CacheTTL

\* SearchStock(query) (stock_service.go:534-557)
SearchStock(query) ==
    LET input == NormalizeTicker(query)
        ticker == ResolveTicker(input)
    IN IF IsFresh(ticker) THEN CacheHit("SearchStock", query, ticker)
       ELSE Fetch("SearchStock", query, ticker)

\* the characters [a-zA-Z0-9 ] among those the modelled queries use
AllowedChars == { "a", "e", "l", "p", "z", "A", "E", "L", "P", "Z", " " }
MaxQueryLen == 50

\* sanitizeSearchQuery(query): the cleaned query and the error
sanitizeSearchQuery(query) ==
    IF Len(query) > MaxQueryLen THEN [clean |-> <<>>, err |-> "search query too long"]
    ELSE [clean |-> NormalizeTicker(SelectSeq(query, LAMBDA c : c \in AllowedChars)),
          err |-> ""]

\* SearchStockSecure(query) (tensorflow_model.go:393-419)
SearchStockSecure(query) ==
    LET san == sanitizeSearchQuery(query)
        ticker == ResolveTicker(san.clean)
    IN IF san.err # "" THEN ReturnError("SearchStockSecure", query, san.err, <<>>, <<>>)
       ELSE IF IsFresh(ticker) THEN CacheHit("SearchStockSecure", query, ticker)
       ELSE Fetch("SearchStockSecure", query, ticker)

\* FetchStockInfo(ticker) called directly
FetchStockInfo(query) == Fetch("FetchStockInfo", query, query)

\* the quotes a caller hands to CacheStockInfo (the StockInfo of TestCaching)
TestStock ==
    [NewStockInfo(<<"T", "E", "S", "T">>, 10000, 500, << Num(50, 1), Lit("%") >>,
                  9500, 10500, 9000, << Num(1, 0), Lit("M") >>,
                  << Lit("$"), Num(1, 0), Lit("B") >>) EXCEPT !.DataAge = 0]

CallerQuotes == { TestStock, [TestStock EXCEPT !.Price = 22550, !.DataAge = 7] }

CacheKeys == { AAPL, ZZ }

\* CacheStockInfo(key, stock): the caller's object goes into the cache
CacheStockInfo(key, stock) ==
    /\ nextId <= MaxAllocs
    /\ LET cache == CachePut(stockCache, key, nextId)
       IN /\ stockCache' = cache
          /\ heap' = Live(heap @@ (nextId :> stock), cache, nextId)
          /\ ret' = [Observation("CacheStockInfo", key, nextId, "", <<>>, <<>>, FALSE)
                       EXCEPT !.resps = << stock >>]
    /\ nextId' = nextId + 1
    /\ UNCHANGED <<build, clock, nadv, apiFailureCount, lastApiCallTime,
                   defaultBridge, hostPython, initialized, bgInit, otherVars>>

\* GetCachedStock(key): no age limit; DataAge is rewritten in place
GetCachedStock(key) ==
    IF key \in DOMAIN stockCache
      THEN LET cached == stockCache[key]
               h == [heap EXCEPT ![cached.Data].DataAge =
                                     Seconds(clock - cached.Timestamp)]
           IN /\ heap' = Live(h, stockCache, cached.Data)
              /\ ret' = Observation("GetCachedStock", key, cached.Data, "", <<>>, <<>>, TRUE)
              /\ UNCHANGED <<build, clock, nadv, apiFailureCount, lastApiCallTime,
                             stockCache, nextId, defaultBridge, hostPython,
                             initialized, bgInit, otherVars>>
    ELSE /\ ret' = Observation("GetCachedStock", key, NilPtr, "", <<>>, <<>>, FALSE)
         /\ heap' = Live(heap, stockCache, NilPtr)
         /\ UNCHANGED <<build, clock, nadv, apiFailureCount, lastApiCallTime,
                        stockCache, nextId, defaultBridge, hostPython,
                        initialized, bgInit, otherVars>>

\* the goroutine started by NewTFModelService: GetPythonBridge().Initialize()
InitializeBridge ==
    /\ bgInit = "pending"
    /\ GetPythonBridge
    /\ \E chk \in InitChecks :
         initialized' = Initialize(initialized, pythonExecutable, chk).initialized
    /\ bgInit' = "done"
    /\ UNCHANGED <<build, clock, nadv, apiFailureCount, lastApiCallTime, stockCache,
                   heap, nextId, ret, hostPython, otherVars>>

\* time passes: half a second, or one half second short of five minutes
ClockSteps == { 1, 599 }

Advance ==
    /\ nadv < MaxAdvances
    /\ \E d \in ClockSteps : clock' = clock + d
    /\ nadv' = nadv + 1
    /\ UNCHANGED <<build, apiFailureCount, lastApiCallTime, stockCache, heap, nextId,
                   ret, defaultBridge, hostPython, initialized, bgInit, otherVars>>

\* time passes, more than once
MaxWaits == 2

Wait ==
    /\ nadv < MaxWaits
    /\ \E d \in ClockSteps : clock' = clock + d
    /\ nadv' = nadv + 1
    /\ UNCHANGED <<build, apiFailureCount, lastApiCallTime, stockCache, heap, nextId,
                   ret, defaultBridge, hostPython, initialized, bgInit, otherVars>>

\* five minutes pass at once
AdvanceWindow ==
    /\ nadv < MaxAdvances
    /\ clock' = clock + SuppressionWindow
    /\ nadv' = nadv + 1
    /\ UNCHANGED <<build, apiFailureCount, lastApiCallTime, stockCache, heap, nextId,
                   ret, defaultBridge, hostPython, initialized, bgInit, otherVars>>

----------------------------------------------------------------------------
(* SearchStock run by several goroutines at once.  stockCache is a plain   *)
(* map that no lock guards: the lookup of SearchStock and the assignment   *)
(* of addAIAnalysis are steps of their own.  When one goroutine is inside  *)
(* the assignment and another reads or assigns, the Go runtime either      *)
(* notices it and ends the process with a fatal error, or it does not and  *)
(* the accesses take effect one after the other.                           *)

Callers == 1..MaxAllocs

Flight(pc, query, ptr, err, calls, resps) ==
    [pc |-> pc, query |-> query, ptr |-> ptr, err |-> err, calls |-> calls,
     resps |-> resps]

NoFlights == [k \in Callers |-> Flight("idle", <<>>, NilPtr, "", <<>>, <<>>)]

\* fatal error: concurrent map writes / concurrent map read and map write
Crashed == \E k \in Callers : flights[k].pc = "fatal"

\* a goroutine other than k is inside the assignment to stockCache
MapBeingWritten(k) == \E j \in Callers \ {k} : flights[j].pc = "writing"

\* what the chain of FetchStockInfo comes back with for a ticker: the quote
\* of the first provider that succeeds, or no quote when all three fail
ChainOutcomes(ticker) ==
    LET bad1 == { x \in TwelveResponses(ticker) : ~Succeeded(fetchFromTwelveData(ticker, x)) }
        bad2 == { x \in AlphaResponses(ticker) : ~Succeeded(fetchFromAlphaVantage(ticker, x)) }
    IN { [found |-> TRUE, r |-> fetchFromTwelveData(ticker, r1),
          calls |-> << "TwelveData" >>, resps |-> << r1 >>] :
           r1 \in TwelveResponses(ticker) \ bad1 }
       \cup
       { [found |-> TRUE, r |-> fetchFromAlphaVantage(ticker, r2),
          calls |-> << "TwelveData", "AlphaVantage" >>, resps |-> << r1, r2 >>] :
           r1 \in bad1, r2 \in AlphaResponses(ticker) \ bad2 }
       \cup
       { [found |-> Succeeded(fetchFromFinnhub(ticker, r3)),
          r |-> fetchFromFinnhub(ticker, r3),
          calls |-> << "TwelveData", "AlphaVantage", "Finnhub" >>,
          resps |-> << r1, r2, r3 >>] :
           r1 \in bad1, r2 \in bad2, r3 \in FinnhubResponses }

\* the results PredictStockMovement may give addAIAnalysis for a quote
FlightPredictions(info) ==
    IF info.Price > 0
      THEN IF initialized
             THEN { PredictStockMovement(CentUnit, info, TRUE, o1, o2, rf, h) :
                      o1 \in SvcPyOutcomes, o2 \in SvcPyOutcomes,
                      rf \in SvcRandomFactors, h \in SvcHours }
           ELSE { PredictStockMovement(CentUnit, info, FALSE, PyExit, PyExit, rf, h) :
                      rf \in SvcRandomFactors, h \in SvcHours }
    ELSE { [pred |-> NoPrediction, isNil |-> TRUE, err |-> "", path |-> "none"] }

\* goroutine k runs SearchStock(query) up to the assignment to stockCache:
\* the lookup, and on a miss the providers and the analysis
FlightFetch(k, query) ==
    LET ticker == ResolveTicker(NormalizeTicker(query))
        done(ptr, err, calls, resps) ==
            flights' = [flights EXCEPT ![k] = Flight("returned", query, ptr, err, calls, resps)]
    IN /\ ~Crashed
       /\ flights[k].pc = "idle"
       /\ \E noticed \in { b \in BOOLEAN : b => MapBeingWritten(k) } :
            IF noticed
              THEN /\ flights' = [flights EXCEPT ![k].pc = "fatal"]
                   /\ UNCHANGED <<heap, nextId, ret, defaultBridge>>
            ELSE IF IsFresh(ticker)
              THEN /\ heap' = [heap EXCEPT ![stockCache[ticker].Data].DataAge =
                                   Seconds(Since(stockCache[ticker].Timestamp))]
                   /\ done(stockCache[ticker].Data, "", <<>>, <<>>)
                   /\ ret' = Observation("SearchStock", query, stockCache[ticker].Data, "",
                                         <<>>, <<>>, TRUE)
                   /\ UNCHANGED <<nextId, defaultBridge>>
            ELSE IF ticker = <<>>
              THEN /\ done(NilPtr, ValidationError, <<>>, <<>>)
                   /\ ret' = Observation("SearchStock", query, NilPtr, ValidationError,
                                         <<>>, <<>>, FALSE)
                   /\ UNCHANGED <<heap, nextId, defaultBridge>>
            ELSE \E o \in ChainOutcomes(ticker) :
                   IF o.found
                     THEN \E p \in FlightPredictions(o.r.info) :
                            /\ heap' = heap @@ (nextId :> WithPrediction(o.r.info, p))
                            /\ flights' = [flights EXCEPT ![k] =
                                             Flight("fetched", query, nextId, "", o.calls,
                                                    o.resps)]
                            /\ nextId' = nextId + 1
                            /\ IF o.r.info.Price > 0 THEN GetPythonBridge
                               ELSE UNCHANGED defaultBridge
                            /\ UNCHANGED ret
                   ELSE /\ heap' = heap @@ (nextId :> createRealisticStockData(ticker).info)
                        /\ done(nextId, "", o.calls, o.resps)
                        /\ ret' = Observation("SearchStock", query, nextId, "", o.calls,
                                              o.resps, FALSE)
                        /\ nextId' = nextId + 1
                        /\ UNCHANGED defaultBridge
       /\ UNCHANGED <<build, clock, nadv, apiFailureCount, lastApiCallTime, stockCache,
                      hostPython, initialized, bgInit, pret, step, hubVars, bridges, goroutines>>

\* goroutine k enters stockCache[stockInfo.Ticker] = &CachedStock{...}
FlightWriteBegin(k) ==
    /\ ~Crashed
    /\ flights[k].pc = "fetched"
    /\ \E noticed \in { b \in BOOLEAN : b => MapBeingWritten(k) } :
         flights' = [flights EXCEPT ![k].pc = IF noticed THEN "fatal" ELSE "writing"]
    /\ UNCHANGED <<svcVars, pret, step, hubVars, bridges, goroutines>>

\* the assignment is done; return stockInfo, nil
FlightWriteEnd(k) ==
    /\ ~Crashed
    /\ flights[k].pc = "writing"
    /\ stockCache' = CachePut(stockCache, heap[flights[k].ptr].Ticker, flights[k].ptr)
    /\ flights' = [flights EXCEPT ![k].pc = "returned"]
    /\ ret' = Observation("SearchStock", flights[k].query, flights[k].ptr, "",
                          flights[k].calls, flights[k].resps, FALSE)
    /\ UNCHANGED <<build, clock, nadv, apiFailureCount, lastApiCallTime, heap, nextId,
                   defaultBridge, hostPython, initialized, bgInit, pret, step, hubVars,
                   bridges, goroutines>>

----------------------------------------------------------------------------
(* GetPythonBridge and the bridge's methods run by several goroutines at   *)
(* once: goroutine 0 is the one NewTFModelService starts, the others are   *)
(* request handlers and broadcaster tasks.  defaultBridge is a plain       *)
(* variable and pb.initialized a plain field: only the body of Initialize  *)
(* runs under initMutex.  Every read and every write of them is a step.    *)

Goroutines == 0..MaxAllocs

\* the callers of a goroutine: the background initialisation, the hub's
\* fetchTechnicalIndicators, the services' PredictStockMovement
Roles(g) ==
    IF g = 0 THEN { "NewTFModelService" }
    ELSE { "fetchTechnicalIndicators", "PredictStockMovement" }

\* initMutex of a bridge that nobody holds
Unlocked == -1

PythonBridge(init, holder) == [initialized |-> init, initMutex |-> holder]

\* a goroutine: its caller, its position, the bridge GetPythonBridge gave
\* it, the error of its Initialize, whether it launched the analyzer and
\* whether the bridge was initialized at that moment
Goroutine(role, pc, bridge, err, launched, onInit) ==
    [role |-> role, pc |-> pc, bridge |-> bridge, err |-> err, launched |-> launched,
     onInit |-> onInit]

NoGoroutines == [g \in Goroutines |-> Goroutine("none", "idle", NilPtr, "", FALSE, FALSE)]

\* everything the bridge's goroutines leave alone
bridgeFrame ==
    <<build, clock, nadv, apiFailureCount, lastApiCallTime, stockCache, heap, nextId, ret,
      hostPython, pret, step, flights, hubVars>>

\* a read of pb.initialized outside initMutex: the value of the field, or
\* the false it held before a write that is not yet visible to the reader
UnlockedRead(b) == { bridges[b].initialized, FALSE }

\* GetPythonBridge, 'if defaultBridge == nil'
GetPythonBridgeTest(g, role) ==
    /\ goroutines[g].pc = "idle"
    /\ goroutines' = [goroutines EXCEPT
                        ![g].role = role,
                        ![g].pc = IF Len(bridges) = 0 THEN "new" ELSE "return"]
    /\ UNCHANGED <<bridgeFrame, bridges, defaultBridge, initialized, bgInit>>

\* GetPythonBridge, 'defaultBridge = NewPythonBridge()'
NewPythonBridge(g) ==
    /\ goroutines[g].pc = "new"
    /\ bridges' = Append(bridges, PythonBridge(FALSE, Unlocked))
    /\ defaultBridge' = TRUE
    /\ initialized' = FALSE
    /\ goroutines' = [goroutines EXCEPT ![g].pc = "return"]
    /\ UNCHANGED <<bridgeFrame, bgInit>>

\* GetPythonBridge, 'return defaultBridge'; the caller goes on with the
\* bridge it got
GetPythonBridgeReturn(g) ==
    /\ goroutines[g].pc = "return"
    /\ goroutines' = [goroutines EXCEPT
                        ![g].bridge = Len(bridges),
                        ![g].pc = CASE goroutines[g].role = "NewTFModelService" -> "lock"
                                    [] goroutines[g].role = "fetchTechnicalIndicators" -> "test"
                                    [] OTHER -> "gate"]
    /\ UNCHANGED <<bridgeFrame, bridges, defaultBridge, initialized, bgInit>>

\* PredictStockMovement, 'if bridge.initialized': the analyzer is tried
\* only then, else the prediction is the local one
BridgeInitialized(g) ==
    /\ goroutines[g].pc = "gate"
    /\ \E v \in UnlockedRead(goroutines[g].bridge) :
         goroutines' = [goroutines EXCEPT ![g].pc = IF v THEN "test" ELSE "done"]
    /\ UNCHANGED <<bridgeFrame, bridges, defaultBridge, initialized, bgInit>>

\* a predict call that launches without looking at pb.initialized
NotInitializedSkipped(g) ==
    /\ goroutines[g].pc = "test"
    /\ goroutines' = [goroutines EXCEPT ![g].pc = "launch"]
    /\ UNCHANGED <<bridgeFrame, bridges, defaultBridge, initialized, bgInit>>

\* PredictStockPriceWithSimpleAnalyzer, 'if !pb.initialized': Initialize is
\* called only then
NotInitialized(g) ==
    /\ goroutines[g].pc = "test"
    /\ \E v \in UnlockedRead(goroutines[g].bridge) :
         goroutines' = [goroutines EXCEPT ![g].pc = IF v THEN "launch" ELSE "lock"]
    /\ UNCHANGED <<bridgeFrame, bridges, defaultBridge, initialized, bgInit>>

\* Initialize, 'pb.initMutex.Lock()'
InitializeLock(g) ==
    /\ goroutines[g].pc = "lock"
    /\ bridges[goroutines[g].bridge].initMutex = Unlocked
    /\ bridges' = [bridges EXCEPT ![goroutines[g].bridge].initMutex = g]
    /\ goroutines' = [goroutines EXCEPT ![g].pc = "locked"]
    /\ UNCHANGED <<bridgeFrame, defaultBridge, initialized, bgInit>>

\* the body of Initialize and the deferred Unlock; a predict call whose
\* Initialize fails returns the error, else it goes on to the analyzer
InitializeLocked(g) ==
    /\ goroutines[g].pc = "locked"
    /\ \E chk \in InitChecks :
         LET b == goroutines[g].bridge
             r == Initialize(bridges[b].initialized, pythonExecutable, chk)
             after == [bridges EXCEPT ![b] = PythonBridge(r.initialized, Unlocked)]
         IN /\ bridges' = after
            /\ initialized' = after[Len(after)].initialized
            /\ goroutines' = [goroutines EXCEPT
                                ![g].err = r.err,
                                ![g].pc = IF goroutines[g].role = "NewTFModelService"
                                               \/ r.err # ""
                                            THEN "done" ELSE "launch"]
    /\ bgInit' = IF g = 0 THEN "done" ELSE bgInit
    /\ UNCHANGED <<bridgeFrame, defaultBridge>>

\* cmd.Run() of the analyzer
Launch(g) ==
    /\ goroutines[g].pc = "launch"
    /\ goroutines' = [goroutines EXCEPT
                        ![g].launched = TRUE,
                        ![g].onInit = bridges[goroutines[g].bridge].initialized,
                        ![g].pc = "done"]
    /\ UNCHANGED <<bridgeFrame, bridges, defaultBridge, initialized, bgInit>>

----------------------------------------------------------------------------
(* The exported PredictStockMovement, called directly *)

NoPredictionCall ==
    [op |-> "none", unit |-> CentUnit, nilStock |-> FALSE, panicked |-> FALSE,
     stock |-> TestStock, bridgeInit |-> FALSE, outs |-> <<>>,
     randomFactor |-> 0, hour |-> 0, pred |-> NoPrediction, isNil |-> TRUE,
     err |-> "", path |-> ""]

\* the quotes handed to the exported PredictStockMovement: rising, falling, flat
ValidQuotes ==
    CallerQuotes \cup { [TestStock EXCEPT !.Change = -320],
                        [TestStock EXCEPT !.Change = 0] }

\* PredictStockMovement(nil): tf.modelReady is true, and the first use of
\* stock is stock.Ticker, at line 56 on an initialized bridge and at line 85
\* otherwise; the nil pointer dereference panics
PredictStockMovementOfNil ==
    /\ GetPythonBridge
    /\ pret' = [NoPredictionCall EXCEPT !.op = "PredictStockMovement",
                                        !.nilStock = TRUE, !.panicked = TRUE,
                                        !.bridgeInit = initialized, !.stock = NilInfo]
    /\ UNCHANGED <<build, clock, nadv, apiFailureCount, lastApiCallTime, stockCache,
                   heap, nextId, ret, hostPython, initialized, bgInit, step, flights,
                   bridges, goroutines, hubVars>>

\* the quotes of TestTFErrorHandling and TestFeatureExtraction: a negative
\* price, no price, a day range of zeros, a day range of negative numbers,
\* and the quote 100 / 95 / 110 / 90 without a change and with changes of
\* 5.00, 0.50 and -0.50
InvalidStock ==
    [TestStock EXCEPT !.Price = -1000, !.Change = 250, !.Open = 14900, !.High = 15200,
                      !.Low = 14850]
ZeroDataStock ==
    [TestStock EXCEPT !.Price = 15025, !.Change = 250, !.Open = 0, !.High = 0, !.Low = 0]
ScenarioStock ==
    [TestStock EXCEPT !.Price = 10000, !.Change = 0, !.Open = 9500, !.High = 11000,
                      !.Low = 9000, !.ChangePct = << Num(50, 1), Lit("%") >>]
HeuristicQuotes ==
    { InvalidStock, [InvalidStock EXCEPT !.Price = 0], ZeroDataStock,
      [ZeroDataStock EXCEPT !.Open = -100, !.High = -100, !.Low = -500],
      ScenarioStock, [ScenarioStock EXCEPT !.Change = 500],
      [ScenarioStock EXCEPT !.Change = 50], [ScenarioStock EXCEPT !.Change = -50] }

\* quotes of stocks priced below ten cents, as the providers quote them with
\* fractions of a cent ("0.01400"); amounts in hundredths of a cent
SubCentQuotes ==
    { [TestStock EXCEPT !.Price = 140, !.Change = 0, !.Open = 140, !.High = 150,
                        !.Low = 130],
      [TestStock EXCEPT !.Price = 40, !.Change = 10, !.Open = 30, !.High = 40,
                        !.Low = 30],
      [TestStock EXCEPT !.Price = 950, !.Change = -50, !.Open = 1000, !.High = 1000,
                        !.Low = 950] }

\* the analyzer runs a call can see: none matter while the bridge is not
\* initialized, since no subprocess is launched
Launched(bridgeInit) == IF bridgeInit THEN PyOutcomes ELSE { PyExit }

\* PredictStockMovement(stock) of the exported wrappers: tfModelService is
\* set by init(), so the call always reaches the method
ExportedPredictStockMovement(unit, stock) ==
    /\ GetPythonBridge
    /\ \E out1 \in Launched(initialized), out2 \in Launched(initialized),
          randomFactor \in RandomFactors, hour \in Hours :
         LET r == PredictStockMovement(unit, stock, initialized, out1, out2, randomFactor, hour)
             outs == IF ~initialized THEN <<>>
                     ELSE IF r.path = "simple" THEN <<out1>>
                     ELSE <<out1, out2>>
         IN pret' = [op |-> "PredictStockMovement", unit |-> unit, nilStock |-> FALSE,
                     panicked |-> FALSE, stock |-> stock,
                     bridgeInit |-> initialized, outs |-> outs,
                     randomFactor |-> IF r.path = "fallback" THEN randomFactor ELSE 0,
                     hour |-> IF r.path = "fallback" THEN hour ELSE 0,
                     pred |-> r.pred, isNil |-> r.isNil, err |-> r.err,
                     path |-> r.path]
    /\ UNCHANGED <<build, clock, nadv, apiFailureCount, lastApiCallTime, stockCache,
                   heap, nextId, ret, hostPython, initialized, bgInit, step, flights,
                   bridges, goroutines, hubVars>>

----------------------------------------------------------------------------
(* One step of the provider chain on its own *)

StepTickers == { AAPL, ZZ }

NoStep == [provider |-> "none", ticker |-> <<>>, resp |-> TransportError(0),
           result |-> Fail("none")]

StepTwelveData ==
    /\ \E t \in StepTickers : \E resp \in AllTwelveResponses(t) :
         step' = [provider |-> "TwelveData", ticker |-> t, resp |-> resp,
                  result |-> fetchFromTwelveData(t, resp)]
    /\ UNCHANGED <<svcVars, pret, flights, bridges, goroutines, hubVars>>

StepAlphaVantage ==
    /\ \E t \in StepTickers : \E resp \in AllAlphaResponses(t) :
         step' = [provider |-> "AlphaVantage", ticker |-> t, resp |-> resp,
                  result |-> fetchFromAlphaVantage(t, resp)]
    /\ UNCHANGED <<svcVars, pret, flights, bridges, goroutines, hubVars>>

StepFinnhub ==
    /\ \E t \in StepTickers, resp \in AllFinnhubResponses :
         step' = [provider |-> "Finnhub", ticker |-> t, resp |-> resp,
                  result |-> fetchFromFinnhub(t, resp)]
    /\ UNCHANGED <<svcVars, pret, flights, bridges, goroutines, hubVars>>

\* the tickers createRealisticStockData is asked for: every string of up to
\* MaxTickerLen letters, AAPL of the built-in table and a ticker made of the
\* same letters
TickerLetters == { "A", "L", "P", "Z" }
PLAA == <<"P", "L", "A", "A">>
SyntheticTickers ==
    UNION { [1..n -> TickerLetters] : n \in 1..MaxTickerLen } \cup { AAPL, PLAA }

\* createRealisticStockData(ticker) on its own, at any time
StepSynthetic ==
    /\ \E t \in SyntheticTickers :
         step' = [provider |-> "synthetic", ticker |-> t, resp |-> TransportError(0),
                  result |-> createRealisticStockData(t)]
    /\ UNCHANGED <<svcVars, pret, flights, bridges, goroutines, hubVars>>

\* bridge.Initialize() called by hand, as the tests do; the checks that
\* were not run are not observed
CallInitialize ==
    /\ GetPythonBridge
    /\ \E chk \in InitChecks :
         LET r == Initialize(initialized, pythonExecutable, chk)
         IN /\ initialized' = r.initialized
            /\ step' = [provider |-> "Initialize", before |-> initialized,
                        chk |-> IF r.checked THEN chk ELSE "none", result |-> r]
    /\ UNCHANGED <<build, clock, nadv, apiFailureCount, lastApiCallTime, stockCache,
                   heap, nextId, ret, hostPython, bgInit, pret, flights,
                   bridges, goroutines, hubVars>>

\* the tickers handed to the bridge, empty and blank ones included
BridgeTickers == { AAPL, ZZ, <<>>, <<" ">> }

\* bridge.PredictStockPriceWithSimpleAnalyzer(ticker) called by hand; it
\* initializes the bridge on demand
CallSimpleAnalyzer ==
    /\ GetPythonBridge
    /\ \E ticker \in BridgeTickers, chk \in InitChecks, out \in PyOutcomes :
         LET r == PredictStockPriceWithSimpleAnalyzer(initialized, pythonExecutable,
                                                      chk, ticker, out)
         IN /\ initialized' = r.initialized
            /\ step' = [provider |-> "SimpleAnalyzer", before |-> initialized,
                        ticker |-> ticker, chk |-> IF initialized THEN "none" ELSE chk,
                        out |-> IF r.launched THEN out ELSE PyExit, result |-> r]
    /\ UNCHANGED <<build, clock, nadv, apiFailureCount, lastApiCallTime, stockCache,
                   heap, nextId, ret, hostPython, bgInit, pret, flights,
                   bridges, goroutines, hubVars>>

\* the int64 values handed to FormatVolume and FormatMarketCap: on, just
\* below and above each power of a thousand
FormatInputs ==
    { Int64(hi, lo) :
        hi \in { 0, 1, 75, 999, 1000, 2500, 999999, 1000000, 2500000 },
        lo \in { 0, 1, 999, 1000, 1001, 1500, 9999, 10000, 75000, 500000, 999499,
                 999999 } }

\* FormatVolume(v) and FormatMarketCap(v) of the exported wrappers
StepFormat ==
    /\ \E v \in FormatInputs :
         step' = [provider |-> "format", value |-> v,
                  result |-> [volume |-> formatVolume(v), marketCap |-> formatMarketCap(v)]]
    /\ UNCHANGED <<svcVars, pret, flights, bridges, goroutines, hubVars>>

----------------------------------------------------------------------------
(* AIService: the recommendation text.  A text is the sequence of the      *)
(* pieces it is formatted from; the empty string is the empty sequence.    *)

\* n/d > a/b and n/d < a/b for b > 0 and d # 0
QuotientAbove(n, d, a, b) == IF d > 0 THEN n * b > a * d ELSE n * b < a * d
QuotientBelow(n, d, a, b) == IF d > 0 THEN n * b < a * d ELSE n * b > a * d

\* calculateChangePercentage(change, price) > k and < k: the percentage is
\* change / (price - change) * 100, 0 for price = 0, and an infinity of the
\* sign of change when price = change
ChangePctAbove(stock, k) ==
    IF stock.Price = 0 THEN 0 > k
    ELSE IF stock.Price = stock.Change THEN stock.Change > 0
    ELSE QuotientAbove(stock.Change * 100, stock.Price - stock.Change, k, 1)

ChangePctBelow(stock, k) ==
    IF stock.Price = 0 THEN 0 < k
    ELSE IF stock.Price = stock.Change THEN stock.Change < 0
    ELSE QuotientBelow(stock.Change * 100, stock.Price - stock.Change, k, 1)

getRuleBasedRecommendation(stock) ==
    LET dayRange == stock.High - stock.Low
        \* pricePosition > t/10 and < t/10
        above(t) == QuotientAbove(stock.Price - stock.Low, dayRange, t, 10)
        below(t) == QuotientBelow(stock.Price - stock.Low, dayRange, t, 10)
        Text(recommendation, reason) == << recommendation, " - ", reason >>
    IN IF dayRange = 0 THEN Text("HOLD", "Insufficient price data for analysis")
       ELSE IF ChangePctAbove(stock, 5) /\ above(8)
         THEN Text("SELL", "Strong gains suggest potential profit-taking opportunity")
       ELSE IF ChangePctBelow(stock, -5) /\ below(3)
         THEN Text("BUY", "Significant dip presents potential buying opportunity")
       ELSE IF ChangePctAbove(stock, 2) /\ above(6)
         THEN Text("HOLD/BUY", "Positive momentum with room for growth")
       ELSE IF ChangePctBelow(stock, -2) /\ below(4)
         THEN Text("HOLD/BUY", "Minor decline, potential value opportunity")
       ELSE IF stock.Change > 0 /\ above(5) THEN Text("HOLD", "Stable upward trend")
       ELSE IF stock.Change < 0 /\ below(5)
         THEN Text("HOLD", "Monitor for further developments")
       ELSE Text("HOLD", "Neutral market conditions")

\* the answers of the OpenAI API: client.Do fails, a status, an unreadable
\* or unparsable body, a body with its choices (each the content of a message)
OpenAIResponses ==
    { TransportError(0), Json(500, [Choices |-> <<>>]), Json(429, [Choices |-> <<>>]),
      ReadError(200), BadJson(200), Json(200, [Choices |-> <<>>]),
      Json(200, [Choices |-> << << "BUY - Strong fundamentals and positive momentum." >> >>]),
      Json(200, [Choices |-> << <<>> >>]) }

\* (text, err, whether the API was called) of AIService.GetStockRecommendation
GetStockRecommendation(openAIKey, stock, resp) ==
    IF openAIKey = "" THEN
      [text |-> getRuleBasedRecommendation(stock), err |-> "", called |-> FALSE]
    ELSE IF resp.kind = "transport" \/ resp.status # 200 \/ resp.kind \in { "read", "badjson" }
      THEN [text |-> getRuleBasedRecommendation(stock), err |-> "", called |-> TRUE]
    ELSE IF Len(resp.body.Choices) > 0
      THEN [text |-> resp.body.Choices[1], err |-> "", called |-> TRUE]
    ELSE [text |-> getRuleBasedRecommendation(stock), err |-> "", called |-> TRUE]

OpenAIKeys == { "", "sk-key" }

\* the quotes a recommendation is asked for: falling, flat and rising, with
\* a wide day range, a narrow one and none
AdvisorQuotes ==
    { [TestStock EXCEPT !.Change = ch, !.Low = range[1], !.High = range[2]] :
        ch \in { -800, -300, 0, 300, 800 },
        range \in { <<9000, 10500>>, <<9950, 10050>>, <<10000, 10000>> } }

\* one call of GetStockRecommendation; without a key no request is made and
\* no answer is observed
StepRecommendation ==
    /\ \E key \in OpenAIKeys, stock \in AdvisorQuotes, resp \in OpenAIResponses :
         /\ key = "" => resp = TransportError(0)
         /\ step' = [provider |-> "OpenAI", key |-> key, stock |-> stock, resp |-> resp,
                     result |-> GetStockRecommendation(key, stock, resp)]
    /\ UNCHANGED <<svcVars, pret, flights, bridges, goroutines, hubVars>>

----------------------------------------------------------------------------
(* The websocket subscription hub (websocket_handler.go).  A connection is *)
(* a number; every section the code runs under clientsMutex is one step.   *)

Conns == 1..MaxConns

\* the {ticker} of the request path; the empty one is refused
PathTickers == { <<>>, AAPL }

\* the analyzer runs seen by fetchTechnicalIndicators: a failure, a result
\* with the whole panel, a result whose panel holds the RSI series only
HubPyOutcomes ==
    { PyExit,
      PyJson(PyResult(1550000, 750, "UP", << "RSI oversold" >>,
                      TechnicalMap(RequiredSeries), "")),
      PyJson(PyResult(1550000, 750, "UP", << "RSI oversold" >>,
                      TechnicalMap({ "rsi" }), "")) }

At(pc, technical) == [pc |-> pc, technical |-> technical]

StockUpdate(origin, technical) == [origin |-> origin, technical |-> technical]

\* fetchTechnicalIndicators: the analyzer's panel, else the simulated one;
\* r is the result of PredictStockPriceWithSimpleAnalyzer
createSimulatedTechnicalData == TechnicalMap(RequiredSeries)

fetchTechnicalIndicators(r) ==
    IF r.err = "" /\ ~r.isNil /\ ~r.res.Technical.isNil THEN r.res.Technical
    ELSE createSimulatedTechnicalData

\* a write on connection c cannot complete: the client has stopped reading
\* and the connection is still up
Blocked(c) == c \in stalled /\ c \notin peerGone /\ c \notin closed

\* a WriteJSON that delivers whatever the state of the connection
WriteJSONAnyway(c, update) ==
    received' = [received EXCEPT ![c] = Append(@, update)]

\* conn.WriteJSON(update) on connection c: the update reaches the client
\* unless the connection is closed or the client has gone
WriteJSON(c, update) ==
    received' = IF c \in closed \/ c \in peerGone THEN received
                ELSE [received EXCEPT ![c] = Append(@, update)]

\* HandleWebSocket: refuse an empty ticker or a failed upgrade, else
\* register the connection and start handleConnection
HandleWebSocket(c, ticker, upgraded) ==
    /\ handler[c].pc = "none"
    /\ (ticker = <<>> \/ ~upgraded) \/ mutex = "free"
    /\ IF ticker = <<>> \/ ~upgraded
         THEN /\ handler' = [handler EXCEPT ![c] = At("refused", NilTechnical)]
              /\ UNCHANGED clients
       ELSE /\ clients' = [k \in DOMAIN clients \cup {c} |->
                             IF k = c THEN ticker ELSE clients[k]]
            /\ handler' = [handler EXCEPT ![c] = At("start", NilTechnical)]
    /\ UNCHANGED <<svcVars, flights,
                   bridges, goroutines, pret, step, peerGone, closed, tasks, received, ticks, mutex,
                   stalled>>

\* sendStockUpdate up to the write, within handleConnection: the price and
\* the technical panel
InitialUpdate(c) ==
    /\ handler[c].pc = "start"
    /\ GetPythonBridge
    /\ \E chk \in InitChecks, out \in HubPyOutcomes :
         LET r == PredictStockPriceWithSimpleAnalyzer(initialized, pythonExecutable,
                                                      chk, clients[c], out)
         IN /\ initialized' = r.initialized
            /\ handler' = [handler EXCEPT
                             ![c] = At("write", fetchTechnicalIndicators(r))]
    /\ UNCHANGED <<build, clock, nadv, apiFailureCount, lastApiCallTime, stockCache,
                   heap, nextId, ret, hostPython, bgInit, flights,
                   bridges, goroutines, pret, step, clients,
                   peerGone, closed, tasks, received, ticks, mutex,
                   stalled>>

\* the write of the initial update; then the read loop
InitialWrite(c) ==
    /\ handler[c].pc = "write"
    /\ ~Blocked(c)
    /\ WriteJSON(c, StockUpdate("initial", handler[c].technical))
    /\ handler' = [handler EXCEPT ![c] = At("read", NilTechnical)]
    /\ UNCHANGED <<svcVars, flights,
                   bridges, goroutines, pret, step, clients, peerGone, closed, tasks, ticks, mutex,
                   stalled>>

\* the client goes away
Disconnect(c) ==
    /\ handler[c].pc \in { "start", "write", "writing", "read" }
    /\ c \notin peerGone
    /\ peerGone' = peerGone \cup {c}
    /\ UNCHANGED <<svcVars, flights,
                   bridges, goroutines, pret, step, clients, handler, closed, tasks, received, ticks, mutex,
                   stalled>>

\* handleConnection leaving without taking the connection out of clients
UnregisterForgotten(c) ==
    /\ handler[c].pc = "read"
    /\ c \in peerGone
    /\ handler' = [handler EXCEPT ![c] = At("close", NilTechnical)]
    /\ UNCHANGED <<svcVars, flights,
                   bridges, goroutines, pret, step, clients, peerGone, closed, tasks, received, ticks, mutex,
                   stalled>>

\* conn.ReadMessage() returns an error: the loop breaks and the deferred
\* function takes the connection out of clients
Unregister(c) ==
    /\ handler[c].pc = "read"
    /\ c \in peerGone
    /\ mutex = "free"
    /\ clients' = [k \in DOMAIN clients \ {c} |-> clients[k]]
    /\ handler' = [handler EXCEPT ![c] = At("close", NilTechnical)]
    /\ UNCHANGED <<svcVars, flights,
                   bridges, goroutines, pret, step, peerGone, closed, tasks, received, ticks, mutex,
                   stalled>>

\* the rest of the deferred function: conn.Close(); handleConnection returns
CloseConn(c) ==
    /\ handler[c].pc = "close"
    /\ closed' = closed \cup {c}
    /\ handler' = [handler EXCEPT ![c] = At("exited", NilTechnical)]
    /\ UNCHANGED <<svcVars, flights,
                   bridges, goroutines, pret, step, clients, peerGone, tasks, received, ticks, mutex,
                   stalled>>

\* one tick of StartPriceUpdateBroadcaster: under the lock, one
\* go sendStockUpdate(conn, symbol) per registered connection
Tick ==
    /\ ticks < MaxTicks
    /\ mutex = "free"
    /\ ticks' = ticks + 1
    /\ tasks' = tasks \cup { [conn |-> c, symbol |-> clients[c], tick |-> ticks + 1,
                              pc |-> "start", technical |-> NilTechnical] : c \in DOMAIN clients }
    /\ UNCHANGED <<svcVars, flights,
                   bridges, goroutines, pret, step, clients, handler, peerGone, closed, received, mutex,
                   stalled>>

\* a broadcaster task that gives up before the write
TaskUpdateGivingUp(t) ==
    /\ t \in tasks
    /\ t.pc = "start"
    /\ tasks' = tasks \ {t}
    /\ UNCHANGED <<svcVars, flights,
                   bridges, goroutines, pret, step, clients, handler, peerGone, closed, received,
                   ticks, mutex, stalled>>

\* a broadcaster task builds its update
TaskUpdate(t) ==
    /\ t \in tasks
    /\ t.pc = "start"
    /\ GetPythonBridge
    /\ \E chk \in InitChecks, out \in HubPyOutcomes :
         LET r == PredictStockPriceWithSimpleAnalyzer(initialized, pythonExecutable,
                                                      chk, t.symbol, out)
         IN /\ initialized' = r.initialized
            /\ tasks' = (tasks \ {t}) \cup
                          { [t EXCEPT !.pc = "write",
                                      !.technical = fetchTechnicalIndicators(r)] }
    /\ UNCHANGED <<build, clock, nadv, apiFailureCount, lastApiCallTime, stockCache,
                   heap, nextId, ret, hostPython, bgInit, flights,
                   bridges, goroutines, pret, step, clients,
                   handler, peerGone, closed, received, ticks, mutex,
                   stalled>>

\* a broadcaster task writes its update and ends
TaskWrite(t) ==
    /\ t \in tasks
    /\ t.pc = "write"
    /\ ~Blocked(t.conn)
    /\ WriteJSON(t.conn, StockUpdate("tick", t.technical))
    /\ tasks' = tasks \ {t}
    /\ UNCHANGED <<svcVars, flights,
                   bridges, goroutines, pret, step, clients, handler, peerGone, closed, ticks, mutex,
                   stalled>>

\* The same hub in finer steps: the broadcaster's Lock and its loop with the
\* Unlock are two steps, and a WriteJSON call is entered in one step and
\* returns in another.

\* the client stops reading while it stays connected
Stall(c) ==
    /\ handler[c].pc \in { "start", "write", "writing", "read" }
    /\ c \notin stalled
    /\ c \notin peerGone
    /\ stalled' = stalled \cup {c}
    /\ UNCHANGED <<svcVars, flights,
                   bridges, goroutines, pret, step, clients, handler, peerGone, closed, tasks,
                   received, ticks, mutex>>

\* handleConnection enters conn.WriteJSON with the initial update
InitialWriteBegin(c) ==
    /\ handler[c].pc = "write"
    /\ handler' = [handler EXCEPT ![c] = At("writing", handler[c].technical)]
    /\ UNCHANGED <<svcVars, flights,
                   bridges, goroutines, pret, step, clients, peerGone, closed, tasks, received,
                   ticks, mutex, stalled>>

\* that WriteJSON returns; then the read loop
InitialWriteEnd(c) ==
    /\ handler[c].pc = "writing"
    /\ ~Blocked(c)
    /\ WriteJSON(c, StockUpdate("initial", handler[c].technical))
    /\ handler' = [handler EXCEPT ![c] = At("read", NilTechnical)]
    /\ UNCHANGED <<svcVars, flights,
                   bridges, goroutines, pret, step, clients, peerGone, closed, tasks, ticks, mutex,
                   stalled>>

\* the broadcaster wakes on its ticker and takes clientsMutex
BroadcasterLock ==
    /\ ticks < MaxTicks
    /\ mutex = "free"
    /\ mutex' = "broadcaster"
    /\ ticks' = ticks + 1
    /\ UNCHANGED <<svcVars, flights,
                   bridges, goroutines, pret, step, clients, handler, peerGone, closed, tasks,
                   received, stalled>>

\* a broadcaster that sends the updates itself, under the lock
BroadcasterSendsInline ==
    /\ mutex = "broadcaster"
    /\ \A c \in DOMAIN clients : ~Blocked(c)
    /\ received' = [c \in DOMAIN received |->
                      IF c \in DOMAIN clients /\ c \notin closed /\ c \notin peerGone
                        THEN Append(received[c],
                                    StockUpdate("tick", createSimulatedTechnicalData))
                      ELSE received[c]]
    /\ mutex' = "free"
    /\ UNCHANGED <<svcVars, flights,
                   bridges, goroutines, pret, step, clients, handler, peerGone, closed, tasks,
                   ticks, stalled>>

\* the loop under the lock, go sendStockUpdate(conn, symbol) for every
\* registered connection, and the Unlock
BroadcasterSpawn ==
    /\ mutex = "broadcaster"
    /\ tasks' = tasks \cup { [conn |-> c, symbol |-> clients[c], tick |-> ticks,
                              pc |-> "start", technical |-> NilTechnical] : c \in DOMAIN clients }
    /\ mutex' = "free"
    /\ UNCHANGED <<svcVars, flights,
                   bridges, goroutines, pret, step, clients, handler, peerGone, closed, received,
                   ticks, stalled>>

\* a broadcaster task enters conn.WriteJSON with its update
TaskWriteBegin(t) ==
    /\ t \in tasks
    /\ t.pc = "write"
    /\ tasks' = (tasks \ {t}) \cup { [t EXCEPT !.pc = "writing"] }
    /\ UNCHANGED <<svcVars, flights,
                   bridges, goroutines, pret, step, clients, handler, peerGone, closed, received,
                   ticks, mutex, stalled>>

\* that WriteJSON returns and the task ends
TaskWriteEnd(t) ==
    /\ t \in tasks
    /\ t.pc = "writing"
    /\ ~Blocked(t.conn)
    /\ WriteJSON(t.conn, StockUpdate("tick", t.technical))
    /\ tasks' = tasks \ {t}
    /\ UNCHANGED <<svcVars, flights,
                   bridges, goroutines, pret, step, clients, handler, peerGone, closed, ticks,
                   mutex, stalled>>

NoObservation == Observation("none", <<>>, NilPtr, "", <<>>, <<>>, FALSE)

\* the state after the package's init()
InitServices ==
    /\ clock = 0
    /\ nadv = 0
    /\ apiFailureCount = 0
    /\ lastApiCallTime = ZeroTime
    /\ stockCache = [k \in {} |-> NilPtr]
    /\ heap = [i \in {} |-> NilInfo]
    /\ nextId = 1
    /\ ret = NoObservation
    /\ defaultBridge = FALSE
    /\ initialized = FALSE
    /\ bgInit = "pending"
    /\ pret = NoPredictionCall
    /\ step = NoStep
    /\ flights = NoFlights
    /\ bridges = <<>>
    /\ goroutines = NoGoroutines

\* no connection yet, the broadcaster has not ticked
InitHub ==
    /\ clients = [c \in {} |-> <<>>]
    /\ handler = [c \in Conns |-> At("none", NilTechnical)]
    /\ peerGone = {}
    /\ closed = {}
    /\ tasks = {}
    /\ received = [c \in Conns |-> <<>>]
    /\ ticks = 0
    /\ mutex = "free"
    /\ stalled = {}

\* the source with the provider chain, on a host with python3 on the PATH
Init ==
    /\ build = "chain"
    /\ hostPython = "python3"
    /\ InitServices
    /\ InitHub

\* the source that queries Yahoo Finance and keeps the failure gate
InitYahoo ==
    /\ build = "yahoo"
    /\ hostPython = "python3"
    /\ InitServices
    /\ InitHub

\* any host: with or without a Python interpreter
InitAnyHost ==
    /\ build = "chain"
    /\ hostPython \in { "", "python3" }
    /\ InitServices
    /\ InitHub

\* a host without a Python interpreter: the bridge never initializes and
\* every prediction is the local fallback's
InitNoPython ==
    /\ build = "chain"
    /\ hostPython = ""
    /\ InitServices
    /\ InitHub

\* connections for the hub in finer steps: one more than Conns, so that
\* there is always another client beside a stalled one
Peers == 1..(MaxConns + 1)

InitPeers ==
    /\ build = "chain"
    /\ hostPython = ""
    /\ InitServices
    /\ clients = [c \in {} |-> <<>>]
    /\ handler = [c \in Peers |-> At("none", NilTechnical)]
    /\ peerGone = {}
    /\ closed = {}
    /\ tasks = {}
    /\ received = [c \in Peers |-> <<>>]
    /\ ticks = 0
    /\ mutex = "free"
    /\ stalled = {}

Next ==
    \/ \E q \in Queries : SearchStock(q)
    \/ \E q \in Queries : FetchStockInfo(q)
    \/ InitializeBridge
    \/ Advance

Spec == Init /\ [][Next]_vars

SpecYahoo == InitYahoo /\ [][Next]_vars

\* the Yahoo source called while Yahoo fails and recovers and time passes
NextGate ==
    \/ \E q \in Queries : SearchStock(q)
    \/ \E q \in Queries : FetchStockInfo(q)
    \/ Advance
    \/ AdvanceWindow

SpecGate == InitYahoo /\ [][NextGate]_vars

\* quotes fetched, served from the cache and read back by key
NextQuotes ==
    \/ \E q \in Queries : SearchStock(q)
    \/ \E q \in Queries : FetchStockInfo(q)
    \/ \E k \in CacheKeys : GetCachedStock(k)
    \/ InitializeBridge
    \/ Advance

SpecQuotes == Init /\ [][NextQuotes]_vars

\* quotes searched again and again while they age
NextExpiry ==
    \/ \E q \in Queries : SearchStock(q)
    \/ Wait

SpecExpiry == Init /\ [][NextExpiry]_vars

\* the exported cache operations on their own (the build plays no part)
NextCache ==
    \/ \E k \in CacheKeys, s \in CallerQuotes : CacheStockInfo(k, s)
    \/ \E k \in CacheKeys : GetCachedStock(k)
    \/ Advance

SpecCache == Init /\ [][NextCache]_vars

\* the validating entry point of the handlers
NextSecure ==
    \/ \E q \in Queries : SearchStockSecure(q)
    \/ Advance

SpecSecure == Init /\ [][NextSecure]_vars

\* predictions asked for directly, while the bridge initialises or not
NextPredict ==
    \/ InitializeBridge
    \/ \E s \in ValidQuotes : ExportedPredictStockMovement(CentUnit, s)

SpecPredict == InitAnyHost /\ [][NextPredict]_vars

\* predictions asked of the local fallback for quotes of every shape: priced
\* below the cent, without a price, with missing day ranges, and for no quote
NextHeuristic ==
    \/ InitializeBridge
    \/ \E s \in SubCentQuotes : ExportedPredictStockMovement(SubCentUnit, s)
    \/ \E s \in HeuristicQuotes : ExportedPredictStockMovement(CentUnit, s)
    \/ PredictStockMovementOfNil

SpecHeuristic == InitNoPython /\ [][NextHeuristic]_vars

\* single provider steps over every answer a provider can give
NextProviders ==
    \/ StepTwelveData
    \/ StepAlphaVantage
    \/ StepFinnhub

SpecProviders == Init /\ [][NextProviders]_vars

\* the bridge used by hand: initialized explicitly, in the background, or
\* on demand by a prediction
NextBridge ==
    \/ CallInitialize
    \/ CallSimpleAnalyzer
    \/ InitializeBridge

SpecBridge == InitAnyHost /\ [][NextBridge]_vars

\* numbers formatted for display
NextFormat == StepFormat

SpecFormat == Init /\ [][NextFormat]_vars

\* recommendations asked for with and without an API key
NextAdvisor == StepRecommendation

SpecAdvisor == Init /\ [][NextAdvisor]_vars

\* synthetic quotes made again and again while time passes
NextSynthetic ==
    \/ StepSynthetic
    \/ Advance

SpecSynthetic == Init /\ [][NextSynthetic]_vars

\* the bridge shared by goroutines that all start without one
NextBridges ==
    \/ \E g \in Goroutines : \E role \in Roles(g) : GetPythonBridgeTest(g, role)
    \/ \E g \in Goroutines : NewPythonBridge(g)
    \/ \E g \in Goroutines : GetPythonBridgeReturn(g)
    \/ \E g \in Goroutines : BridgeInitialized(g)
    \/ \E g \in Goroutines : NotInitialized(g)
    \/ \E g \in Goroutines : InitializeLock(g)
    \/ \E g \in Goroutines : InitializeLocked(g)
    \/ \E g \in Goroutines : Launch(g)

SpecBridges == InitAnyHost /\ [][NextBridges]_vars

\* several goroutines in SearchStock at once
NextRace ==
    \/ \E k \in Callers, q \in Queries : FlightFetch(k, q)
    \/ \E k \in Callers : FlightWriteBegin(k)
    \/ \E k \in Callers : FlightWriteEnd(k)
    \/ Advance

SpecRace == Init /\ [][NextRace]_vars

\* the hub: connections come and go while the broadcaster ticks
NextHub ==
    \/ \E c \in Conns, t \in PathTickers, up \in BOOLEAN : HandleWebSocket(c, t, up)
    \/ \E c \in Conns : InitialUpdate(c)
    \/ \E c \in Conns : InitialWrite(c)
    \/ \E c \in Conns : Disconnect(c)
    \/ \E c \in Conns : Unregister(c)
    \/ \E c \in Conns : CloseConn(c)
    \/ Tick
    \/ \E t \in tasks : TaskUpdate(t)
    \/ \E t \in tasks : TaskWrite(t)

SpecHub == InitAnyHost /\ [][NextHub]_vars

\* the hub in finer steps, with clients that stall
NextSends ==
    \/ \E c \in Peers, t \in PathTickers, up \in BOOLEAN : HandleWebSocket(c, t, up)
    \/ \E c \in Peers : InitialUpdate(c)
    \/ \E c \in Peers : InitialWriteBegin(c)
    \/ \E c \in Peers : InitialWriteEnd(c)
    \/ \E c \in Peers : Stall(c)
    \/ \E c \in Peers : Disconnect(c)
    \/ \E c \in Peers : Unregister(c)
    \/ \E c \in Peers : CloseConn(c)
    \/ BroadcasterLock
    \/ BroadcasterSpawn
    \/ \E t \in tasks : TaskUpdate(t)
    \/ \E t \in tasks : TaskWriteBegin(t)
    \/ \E t \in tasks : TaskWriteEnd(t)

SpecSends == InitPeers /\ [][NextSends]_vars

\* the broadcaster task of tick k for connection d
HasTask(d, k) == \E t \in tasks : t.conn = d /\ t.tick = k

\* a step of that task
TaskStep(d, k) ==
    \E t \in tasks :
        /\ t.conn = d
        /\ t.tick = k
        /\ (TaskUpdate(t) \/ TaskWriteBegin(t) \/ TaskWriteEnd(t))

\* a step of handleConnection for connection d
HandlerStep(d) ==
    \/ InitialUpdate(d)
    \/ InitialWriteBegin(d)
    \/ InitialWriteEnd(d)
    \/ Unregister(d)
    \/ CloseConn(d)

\* every goroutine that can run does run: the broadcaster inside its
\* critical section, each handleConnection and each sendStockUpdate task
SendsFairness ==
    /\ WF_vars(BroadcasterSpawn)
    /\ \A d \in Peers : WF_vars(HandlerStep(d))
    /\ \A d \in Peers : \A k \in 1..MaxTicks : WF_vars(TaskStep(d, k))

SpecSendsFair == SpecSends /\ SendsFairness

TypeOK ==
    /\ build \in { "chain", "yahoo" }
    /\ apiFailureCount \in 0..MaxFailures
    /\ nextId \in 1..(MaxAllocs + 1)
    /\ \A k \in DOMAIN stockCache : stockCache[k].Data \in DOMAIN heap

----------------------------------------------------------------------------
(* Properties *)

\* the ticker a completed SearchStock or FetchStockInfo call worked on
TickerOf(obs) ==
    IF obs.op = "FetchStockInfo" THEN NormalizeTicker(obs.query)
    ELSE ResolveTicker(NormalizeTicker(obs.query))

\* the fields of a StockInfo that a provider's quote fills in
QuoteFields(info) ==
    [Ticker |-> info.Ticker, Price |-> info.Price, Change |-> info.Change,
     ChangePct |-> info.ChangePct, Open |-> info.Open, High |-> info.High,
     Low |-> info.Low, Volume |-> info.Volume, MarketCap |-> info.MarketCap]

\* a step that completes the call op(q): the call is what was last observed,
\* and the step is neither a clock step nor the background initialisation
\* (the only other steps of Next, which leave ret alone)
CallStep(op, q) ==
    /\ ret'.op = op
    /\ ret'.query = q
    /\ nadv' = nadv
    /\ bgInit' = bgInit

IsFetch(obs) == obs.op \in { "SearchStock", "FetchStockInfo" } /\ ~obs.hit

\* C1: for a non-empty ticker FetchStockInfo returns a quote and a nil
\* error whatever the providers answer; no provider failure reaches the
\* caller as an error.
C1_ProviderFailureNeverReachesCaller ==
    (IsFetch(ret) /\ TickerOf(ret) # <<>>) => (ret.err = "" /\ ret.ptr # NilPtr)

ProviderOrder == << "TwelveData", "AlphaVantage", "Finnhub" >>

\* what provider number i of the chain makes of the answer resp
StepResult(i, ticker, resp) ==
    CASE i = 1 -> fetchFromTwelveData(ticker, resp)
      [] i = 2 -> fetchFromAlphaVantage(ticker, resp)
      [] i = 3 -> fetchFromFinnhub(ticker, resp)

\* C2: the providers are tried in the order Twelve Data, Alpha Vantage,
\* Finnhub, each at most once; every provider before the last one tried has
\* failed, the chain stops at the first success, and the quote returned is
\* the quote of that provider.
C2_FixedOrderFirstSuccess ==
    (IsFetch(ret) /\ TickerOf(ret) # <<>>) =>
        LET n == Len(ret.calls)
            t == TickerOf(ret)
        IN /\ n \in 1..3
           /\ ret.calls = SubSeq(ProviderOrder, 1, n)
           /\ Len(ret.resps) = n
           /\ \A i \in 1..(n - 1) : ~Succeeded(StepResult(i, t, ret.resps[i]))
           /\ n < 3 => Succeeded(StepResult(n, t, ret.resps[n]))
           /\ Succeeded(StepResult(n, t, ret.resps[n])) =>
                /\ ret.ptr # NilPtr
                /\ QuoteFields(heap[ret.ptr]) =
                     QuoteFields(StepResult(n, t, ret.resps[n]).info)

\* Twelve Data failed, Alpha Vantage answered, Finnhub was not asked
C2_SecondProviderAnswered ==
    /\ IsFetch(ret)
    /\ ret.calls = << "TwelveData", "AlphaVantage" >>
    /\ ret.ptr # NilPtr
    /\ heap[ret.ptr].Price = 15025

\* C3: with more than three counted failures and the last attempt less than
\* five minutes ago, FetchStockInfo on a non-empty ticker asks no provider
\* and returns the synthetic quote of the ticker with a nil error.
C3_SuppressedCallReturnsSynthetic ==
    [][\A q \in Queries :
         ( /\ apiFailureCount > FailureThreshold
           /\ Since(lastApiCallTime) < SuppressionWindow
           /\ NormalizeTicker(q) # <<>>
           /\ CallStep("FetchStockInfo", q)
           /\ FetchStockInfo(q) )
         => /\ ret'.calls = <<>>
            /\ ret'.err = ""
            /\ ret'.ptr # NilPtr
            /\ heap'[ret'.ptr] = createRealisticStockData(NormalizeTicker(q)).info]_vars

\* C4: SearchStock on a query whose resolved ticker has a cache entry
\* younger than the TTL returns the cached object and asks no provider.
C4_FreshEntryServedFromCache ==
    [][\A q \in Queries :
         LET t == ResolveTicker(NormalizeTicker(q))
         IN ( /\ t \in DOMAIN stockCache
              /\ clock - stockCache[t].Timestamp < CacheTTL
              /\ CallStep("SearchStock", q)
              /\ SearchStock(q) )
            => /\ ret'.calls = <<>>
               /\ ret'.err = ""
               /\ ret'.ptr = stockCache[t].Data
               /\ QuoteFields(heap'[ret'.ptr]) = QuoteFields(heap[ret'.ptr])
               /\ UNCHANGED stockCache]_vars

\* a cache hit on an entry that is one half second short of five minutes old
C4_HitJustBelowTTL ==
    /\ ret.op = "SearchStock"
    /\ ret.hit
    /\ ret.ptr # NilPtr
    /\ heap[ret.ptr].DataAge = 299

\* C5: on every connection the first update delivered is the initial update
\* of handleConnection, there is only one initial update, and every update
\* of a broadcaster tick comes after it.
C5_InitialUpdateComesFirst ==
    \A c \in Conns :
        /\ received[c] # <<>> => received[c][1].origin = "initial"
        /\ Cardinality({ i \in 1..Len(received[c]) :
                           received[c][i].origin = "initial" }) <= 1

\* C6: the registry holds exactly the connections whose handleConnection is
\* running and has not yet run its deferred removal; in particular none
\* whose handleConnection has exited.
C6_ExitedConnectionsAreUnregistered ==
    /\ \A c \in Conns : handler[c].pc = "exited" => c \notin DOMAIN clients
    /\ DOMAIN clients = { c \in Conns : handler[c].pc \in { "start", "write", "read" } }

\* a connection that was served its initial update and a broadcaster update,
\* lost its client, and whose handleConnection has returned
C6_ServedThenLeft ==
    \E c \in Conns :
        /\ handler[c].pc = "exited"
        /\ Len(received[c]) = 2
        /\ c \in closed
        /\ c \notin DOMAIN clients

\* a run of the analyzer that the bridge call reports as an error
BridgeFailed(out) ==
    \/ out.kind \in { "exit", "badjson" }
    \/ out.kind = "json" /\ out.result.Error # ""

\* C7: PredictStockMovement returns a prediction and a nil error; when the
\* bridge is not initialized, or every bridge call of the attempt failed,
\* the prediction is the one of the local heuristic.
C7_BridgeFailureFallsBack ==
    pret.op = "PredictStockMovement" =>
        /\ pret.err = ""
        /\ ~pret.isNil
        /\ ( \/ ~pret.bridgeInit
             \/ \A i \in 1..Len(pret.outs) : BridgeFailed(pret.outs[i]) )
           => /\ pret.path = "fallback"
              /\ pret.pred = FallbackPrediction(pret.unit, pret.stock, pret.randomFactor,
                                              pret.hour)

\* both analyzer calls failed on an initialized bridge and the heuristic answered
C7_BothBridgeCallsFailed ==
    /\ pret.op = "PredictStockMovement"
    /\ pret.bridgeInit
    /\ Len(pret.outs) = 2
    /\ pret.outs[1] = PyBadJson
    /\ pret.outs[2].kind = "json"
    /\ pret.path = "fallback"
    /\ pret.pred.Direction = "UP"

\* C8: a quote that a provider step returns as a success has a price above zero.
C8_ProviderSuccessHasPositivePrice ==
    Succeeded(step.result) => step.result.info.Price > 0

\* C9: CacheStockInfo stores the caller's quote under the key with the time
\* of the put; an entry that stays in the cache keeps every field but
\* DataAge; GetCachedStock of a stored key returns the stored object with
\* DataAge set to the whole seconds since the put, and misses on a key that
\* was never put.
C9_CacheRoundTrip ==
    [][/\ \A k \in CacheKeys, q \in CallerQuotes :
            CacheStockInfo(k, q) =>
                /\ k \in DOMAIN stockCache'
                /\ stockCache'[k].Timestamp = clock
                /\ heap'[stockCache'[k].Data] = q
       /\ \A k \in DOMAIN stockCache :
            (k \in DOMAIN stockCache' /\ stockCache'[k] = stockCache[k]) =>
                [heap'[stockCache[k].Data] EXCEPT !.DataAge = 0] =
                    [heap[stockCache[k].Data] EXCEPT !.DataAge = 0]
       /\ \A k \in CacheKeys :
            GetCachedStock(k) =>
                IF k \in DOMAIN stockCache
                  THEN /\ ret'.ptr = stockCache[k].Data
                       /\ heap'[ret'.ptr].DataAge >= 0
                       /\ heap'[ret'.ptr].DataAge * HalfSecondsPerSecond
                             <= clock - stockCache[k].Timestamp
                       /\ (heap'[ret'.ptr].DataAge + 1) * HalfSecondsPerSecond
                             > clock - stockCache[k].Timestamp
                ELSE ret'.ptr = NilPtr]_vars

\* a quote read back 599 half seconds after its put: 299 whole seconds
C9_ReadBackAfterAWhile ==
    /\ ret.op = "GetCachedStock"
    /\ ret.ptr # NilPtr
    /\ heap[ret.ptr].DataAge = 299
    /\ heap[ret.ptr].Price = 22550

ByFallback == pret.op = "PredictStockMovement" /\ pret.path = "fallback"

\* C11: for every quote with price > 0 the prediction of the local fallback
\* differs from the price by at most 10% of the price.  PredictedPrice is in
\* hundredths of a cent, Price in 1/unit of a cent.
C11_FallbackWithinTenPercent ==
    (ByFallback /\ pret.stock.Price > 0) =>
        10 * Abs(pret.pred.PredictedPrice * pret.unit - pret.stock.Price * 100)
            <= pret.stock.Price * 100

\* C12: the confidence of the local fallback's prediction is a fraction in
\* [0.35, 0.95].  Confidence is in thousandths.
C12_FallbackConfidenceIsAFraction ==
    ByFallback => (350 <= pret.pred.Confidence /\ pret.pred.Confidence <= 950)

\* the fields of a synthetic quote the callers compare
SyntheticFields(st) ==
    [Price |-> st.result.info.Price, Change |-> st.result.info.Change,
     Open |-> st.result.info.Open, High |-> st.result.info.High,
     Low |-> st.result.info.Low, Volume |-> st.result.info.Volume,
     MarketCap |-> st.result.info.MarketCap]

\* two calls of createRealisticStockData, one after the other
TwoSyntheticCalls == step.provider = "synthetic" /\ step'.provider = "synthetic"

C14_EveryUpdateHasTheWholePanel ==
    \A c \in Conns : \A i \in 1..Len(received[c]) :
        /\ ~received[c][i].technical.isNil
        /\ RequiredSeries \subseteq received[c][i].technical.keys

\* the API failed: no answer, a status other than 200, an unreadable or
\* unparsable body, or no choices
ApiFailed(resp) ==
    \/ resp.kind \in { "transport", "read", "badjson" }
    \/ resp.status # 200
    \/ resp.body.Choices = <<>>

\* C15: GetStockRecommendation returns a nil error and a non-empty text;
\* without a key it makes no request and returns the rule-based text, which
\* names BUY, SELL or HOLD; on any API failure it returns the rule-based text.
C15_AlwaysARecommendation ==
    step.provider = "OpenAI" =>
        /\ step.result.err = ""
        /\ step.result.text # <<>>
        /\ step.key = "" =>
              /\ ~step.result.called
              /\ step.result.text = getRuleBasedRecommendation(step.stock)
              /\ step.result.text[1] \in { "BUY", "SELL", "HOLD", "HOLD/BUY" }
        /\ (step.key # "" /\ ApiFailed(step.resp)) =>
              step.result.text = getRuleBasedRecommendation(step.stock)

\* C16: Initialize returns nil exactly when it leaves the bridge initialized;
\* on an initialized bridge it returns nil without running the checks again;
\* on a bridge that is not initialized it runs them (given an interpreter),
\* and a failing check returns an error and leaves initialized false.
C16_InitializeIsIdempotent ==
    [][ (step'.provider = "Initialize" /\ step' # step) =>
          /\ (step'.result.err = "") <=> initialized'
          /\ initialized => (step'.result.err = "" /\ ~step'.result.checked)
          /\ (~initialized /\ pythonExecutable # "") => step'.result.checked
          /\ (step'.result.checked /\ step'.chk # "ok") =>
                (step'.result.err # "" /\ ~initialized') ]_vars

\* Initialize called again on a bridge that is initialized: it returns nil
\* and runs no check
C16_RetriedThenRepeated ==
    /\ step.provider = "Initialize"
    /\ step.before
    /\ step.result.err = ""
    /\ ~step.result.checked
    /\ initialized

\* C17: for a nil stock or a stock whose price is not positive,
\* PredictStockMovement returns an error and no prediction, and does not
\* panic.
C17_InvalidStockIsAnError ==
    ( /\ pret.op = "PredictStockMovement"
      /\ (pret.nilStock \/ pret.stock.Price <= 0) )
        => (~pret.panicked /\ pret.err # "" /\ pret.isNil)

\* a quote with a positive price whose open, high or low is zero or negative
UnusableDayRange(stock) ==
    stock.Price > 0 /\ (stock.Open <= 0 \/ stock.High <= 0 \/ stock.Low <= 0)

\* the buffers, in percent of the price, a repair may derive high and low with
RepairBuffers == { 1, 2, 5 }

\* the quote repaired: open defaults to the price, high and low are the
\* price plus and minus the buffer
Repaired(stock, buffer) ==
    [stock EXCEPT !.Open = IF @ <= 0 THEN stock.Price ELSE @,
                  !.High = IF @ <= 0 THEN stock.Price + (stock.Price * buffer) \div 100
                           ELSE @,
                  !.Low = IF @ <= 0 THEN stock.Price - (stock.Price * buffer) \div 100
                          ELSE @]

\* C18: a quote with a positive price and zero or negative open/high/low is
\* repaired before use, and PredictStockMovement returns a prediction and no
\* error for it: the fallback predicts what it predicts for the repaired
\* quote.
C18_DayRangeRepairedBeforeUse ==
    (pret.op = "PredictStockMovement" /\ ~pret.nilStock /\ UnusableDayRange(pret.stock)) =>
        /\ pret.err = ""
        /\ ~pret.isNil
        /\ pret.path = "fallback" =>
              \E b \in RepairBuffers :
                 pret.pred = FallbackPrediction(pret.unit, Repaired(pret.stock, b),
                                                pret.randomFactor, pret.hour)

\* C19: for the quote price 100, open 95, high 110, low 90 and a change of
\* +5.0% the fallback predicts a price in [90, 110] and the direction UP.
C19_ScenarioPredictsUp ==
    ( /\ ByFallback
      /\ pret.unit = CentUnit
      /\ pret.stock \in { ScenarioStock, [ScenarioStock EXCEPT !.Change = 500] } )
        => /\ 9000 * 100 <= pret.pred.PredictedPrice
           /\ pret.pred.PredictedPrice <= 11000 * 100
           /\ pret.pred.Direction = "UP"

\* the suffix of a formatted number: its last piece when that is a text
Suffix(str) == IF str[Len(str)].lit = "" THEN "" ELSE str[Len(str)].lit

\* the suffix fixed thresholds give v: T from 10^12, B from 10^9, M from
\* 10^6, K from 10^3, none below
ThresholdSuffix(v) ==
    IF v.hi >= Million THEN "T"
    ELSE IF v.hi >= 1000 THEN "B"
    ELSE IF v.hi >= 1 THEN "M"
    ELSE IF v.lo >= 1000 THEN "K"
    ELSE ""

\* the renderings the claim gives as examples
FormatExamples ==
    /\ formatVolume(Int64(75, 0)) = << Num(7500, 2), Lit("M") >>
    /\ formatMarketCap(Int64(2500000, 0)) = << Lit("$"), Num(250, 2), Lit("T") >>

\* C20 as stated: formatVolume and formatMarketCap both pick T from 10^12,
\* B from 10^9, M from 10^6, K from 10^3 and no suffix below, for every
\* non-negative input.
C20_SuffixByFixedThresholds ==
    step.provider = "format" =>
        /\ Suffix(step.result.volume) = ThresholdSuffix(step.value)
        /\ Suffix(step.result.marketCap) = ThresholdSuffix(step.value)
        /\ FormatExamples

\* C20, amended: formatVolume picks B from 10^9 (also from 10^12: it has no
\* T), M from 10^6, K from 10^3 and no suffix below; formatMarketCap picks T
\* from 10^12, B from 10^9, M from 10^6 and no suffix below (it has no K).
C20_SuffixesOfEachFormatter ==
    step.provider = "format" =>
        /\ Suffix(step.result.volume) =
             (IF ThresholdSuffix(step.value) = "T" THEN "B"
              ELSE ThresholdSuffix(step.value))
        /\ Suffix(step.result.marketCap) =
             (IF ThresholdSuffix(step.value) = "K" THEN ""
              ELSE ThresholdSuffix(step.value))
        /\ FormatExamples

\* 2500000000000 formatted: $2.50T as a market cap, 2500.00B as a volume
C20_TrillionsFormatted ==
    /\ step.provider = "format"
    /\ step.value = Int64(2500000, 0)
    /\ step.result.marketCap = << Lit("$"), Num(250, 2), Lit("T") >>
    /\ step.result.volume = << Num(250000, 2), Lit("B") >>

\* a send to connection c that has entered WriteJSON and cannot return
BlockedSend(c) ==
    /\ Blocked(c)
    /\ \/ handler[c].pc = "writing"
       \/ \E t \in tasks : t.conn = c /\ t.pc = "writing"

InitialWriteFailed(c) ==
    /\ handler[c].pc \in { "read", "close", "exited" }
    /\ \A i \in 1..Len(received[c]) : received[c][i].origin # "initial"

\* C23: after a write to a connection has failed, no tick starts a send to
\* that connection any more.
C23_WriteErrorEndsTheSubscription ==
    [][ \A c \in Peers :
          InitialWriteFailed(c) =>
              \A k \in 1..MaxTicks : HasTask(c, k)' => HasTask(c, k) ]_vars

\* the number of goroutines that have entered conn.WriteJSON on connection
\* c and have not returned from it
Writers(c) ==
    (IF handler[c].pc = "writing" THEN 1 ELSE 0)
        + Cardinality({ t \in tasks : t.conn = c /\ t.pc = "writing" })

\* C24: at any time at most one goroutine is inside WriteJSON on a given
\* connection, be it handleConnection with the initial update or the task
\* of a broadcaster tick.
C24_OneWriterPerConnection ==
    \A c \in Peers : Writers(c) <= 1

\* C25: goroutines that run SearchStock for the same ticker at the same
\* time all return normally, and the entry the cache then holds for the
\* ticker is the whole result of one of them.
C25_ConcurrentFetchesLastWriterWins ==
    /\ ~Crashed
    /\ \A t \in DOMAIN stockCache :
         \E k \in Callers :
             /\ flights[k].pc = "returned"
             /\ flights[k].ptr = stockCache[t].Data
             /\ heap[flights[k].ptr].Ticker = t

ReachesGate == nadv' = nadv /\ IsFetch(ret') /\ TickerOf(ret') # <<>>

C28_EveryFailureIsCounted ==
    [][ (ReachesGate /\ ret'.calls # <<>> /\ ret'.err # "") =>
            apiFailureCount' = apiFailureCount + 1 ]_vars

C31_RefusedCallChangesNothing ==
    [][ (ReachesGate /\ GateOpen) =>
          /\ ret'.calls = <<>>
          /\ apiFailureCount' = apiFailureCount
          /\ lastApiCallTime' = lastApiCallTime
          /\ stockCache' = stockCache
          /\ \A k \in DOMAIN stockCache :
                 heap'[stockCache[k].Data] = heap[stockCache[k].Data] ]_vars

\* a call has been refused while the cache held a quote
C31_RefusedWithAQuoteCached ==
    /\ step.provider = "Yahoo"
    /\ ~step.asked
    /\ ret.calls = <<>>
    /\ ret.err # ""
    /\ TickerOf(ret) # <<>>
    /\ DOMAIN stockCache # {}

\* C32: a fetch that ends in an error never lowers the failure counter; the
\* counter goes back to zero only in a call that returns a quote.
C32_OnlyAQuoteResetsTheCounter ==
    [][ (ReachesGate /\ ret'.err # "") => apiFailureCount' >= apiFailureCount ]_vars

\* C33: every quote that a fetch returns for the ticker T, from a provider
\* or synthetic, is in the cache under T when the call returns, stamped with
\* the time of the call, so that SearchStock(T) finds it fresh.
C33_ReturnedQuoteIsCached ==
    [][ (nadv' = nadv /\ bgInit' = bgInit /\ IsFetch(ret') /\ ret'.ptr # NilPtr) =>
          LET T == TickerOf(ret')
          IN /\ T \in DOMAIN stockCache'
             /\ stockCache'[T].Data = ret'.ptr
             /\ stockCache'[T].Timestamp = clock ]_vars

\* the number of broadcast updates that the client of connection c has got
TickUpdates(c) ==
    Cardinality({ i \in 1..Len(received[c]) : received[c][i].origin = "tick" })

C35_LaunchedOnlyWhenInitialized ==
    \A g \in Goroutines :
        /\ goroutines[g].pc = "launch" => bridges[goroutines[g].bridge].initialized
        /\ goroutines[g].launched => (goroutines[g].onInit /\ goroutines[g].err = "")
        /\ goroutines[g].err # "" => (goroutines[g].pc = "done" /\ ~goroutines[g].launched)

\* of two predict calls on the same bridge one has failed to initialize it
\* and returned the error, the other has initialized it and launched
C35_OneRefusedOneLaunched ==
    \E g \in Goroutines, h \in Goroutines :
        /\ g # 0
        /\ h # 0
        /\ g # h
        /\ goroutines[g].bridge = goroutines[h].bridge
        /\ goroutines[g].err # ""
        /\ goroutines[g].pc = "done"
        /\ goroutines[h].launched
        /\ goroutines[h].err = ""

\* C36: at most one PythonBridge is ever created, and every caller of
\* GetPythonBridge is handed that one.
C36_OneBridgeForAll ==
    /\ Len(bridges) <= 1
    /\ \A g \in Goroutines, h \in Goroutines :
          (goroutines[g].bridge # NilPtr /\ goroutines[h].bridge # NilPtr)
             => goroutines[g].bridge = goroutines[h].bridge

\* C37: a SearchStock that is answered from the cache leaves the entries
\* and their timestamps as they are, and a SearchStock for a ticker whose
\* entry was fetched five minutes ago or earlier is not answered from the
\* cache but asks the providers, whatever was read in between.
C37_NoSlidingExpiry ==
    [][ (nadv' = nadv /\ ret'.op = "SearchStock") =>
          LET T == TickerOf(ret')
          IN /\ ret'.hit => stockCache' = stockCache
             /\ (T \in DOMAIN stockCache /\ Since(stockCache[T].Timestamp) >= CacheTTL)
                   => (~ret'.hit /\ ret'.calls # <<>>) ]_vars

\* a quote was served from the cache at the age of 299.5 s and is, half a
\* second later, too old to be served
C37_ReadJustBeforeItExpired ==
    /\ ret.op = "SearchStock"
    /\ ret.hit
    /\ ret.ptr \in DOMAIN heap
    /\ heap[ret.ptr].DataAge = Seconds(CacheTTL - 1)
    /\ TickerOf(ret) \in DOMAIN stockCache
    /\ stockCache[TickerOf(ret)].Data = ret.ptr
    /\ Since(stockCache[TickerOf(ret)].Timestamp) = CacheTTL

\* changePercent of the local fallback before it is limited to +/-5%, as the
\* fraction n / d of a percent (tensorflow_model.go:88-98)
FallbackChangePercent(stock, randomFactor) ==
    IF stock.Change # 0 /\ stock.Price # 0
      THEN [n |-> stock.Change * (IF randomFactor > 500 THEN 120 ELSE -80), d |-> stock.Price]
    ELSE [n |-> 0, d |-> 1]

\* C38: the direction of the local fallback's prediction is UP exactly when
\* the predicted change is above +1%, DOWN exactly when it is below -1%, and
\* NEUTRAL otherwise.
C38_DirectionByOnePercent ==
    ByFallback =>
        LET pct == FallbackChangePercent(pret.stock, pret.randomFactor)
            up == QuotientAbove(pct.n, pct.d, 1, 1)
            down == QuotientBelow(pct.n, pct.d, -1, 1)
        IN /\ pret.pred.Direction \in { "UP", "DOWN", "NEUTRAL" }
           /\ pret.pred.Direction = "UP" <=> up
           /\ pret.pred.Direction = "DOWN" <=> down

\* the most factors a prediction may list
MaxFactors == 3

\* C39: every record that a call returns lists at most three factors,
\* whether they come from the analyzer's or the local prediction or from
\* the synthetic quote.
C39_AtMostThreeFactors ==
    (ret.ptr # NilPtr /\ ret.ptr \in DOMAIN heap) =>
        Len(heap[ret.ptr].KeyFactors) <= MaxFactors

====
